---- MODULE Spec2Model ----
(***************************************************************************)
(* Model of the eplda client (src/eplda/api.py, src/eplda/constants.py,    *)
(* src/eplda/config.py): the request executor EPLAPI._make_request with    *)
(* its retry loop, and the projections built on it.                        *)
(*                                                                         *)
(* Every failure of the client is a Python ValueError told apart by its    *)
(* message only.  A message is modelled as the sequence of its words, and  *)
(* Python's  needle in str(e)  as "the words of needle occur               *)
(* contiguously in the message".                                           *)
(***************************************************************************)
EXTENDS Integers, Sequences, FiniteSets, TLC

VARIABLES
    cfg,        \* the settings api.py reads from config: max_retries, retry_delay
    call,       \* the public call in progress: [name, arg, season, output]
    pc,         \* position of the call: "idle", "http", "ret", "done"
    stage,      \* which request of the call is being made
    attempt,    \* loop variable of _make_request
    trace,      \* upstream outcomes of the attempts of the current _make_request
    sleeps,     \* time.sleep calls of the current _make_request: [after, secs]
    mk,         \* outcome of the current _make_request
    out,        \* outcome of the public call
    mkCalls,    \* _make_request calls made by the public call so far
    httpCalls,  \* requests.get calls made by the public call so far
    work,       \* the local variables of the public call in progress
    made,       \* the constructions of EPLAPI so far: [custom_config, out]
    heap,       \* the dict objects of config.py: DEFAULT_CONFIG, its nested
                \* dicts, and self.config of every APIConfig constructed
    configs     \* the constructions of APIConfig so far: [top, config_file, env]

vars ==
    <<cfg, call, pc, stage, attempt, trace, sleeps, mk, out, mkCalls, httpCalls, work, made,
      heap, configs>>

(***************************************************************************)
(* Bounds of the model.                                                    *)
(***************************************************************************)
MaxRetriesBound == 3
MaxRetriesProj == 1
MaxClients == 2
MaxConfigs == 2
MaxSeasons == 2
MaxTeams == 3
MaxEntries == 2

(***************************************************************************)
(* Program constants.                                                      *)
(***************************************************************************)
DefaultMaxRetries == 3
DefaultRetryDelay == 1
DefaultRetryAfter == 60
DefaultTimeout == 30
DefaultPageSize == 20
DefaultMaxPageSize == 100

(***************************************************************************)
(* Messages.                                                               *)
(***************************************************************************)
RECURSIVE ContainsAt(_, _, _)
ContainsAt(msg, needle, i) ==
    IF i + Len(needle) - 1 > Len(msg) THEN FALSE
    ELSE IF \A k \in 1..Len(needle) : msg[i + k - 1] = needle[k] THEN TRUE
    ELSE ContainsAt(msg, needle, i + 1)

\* needle in str(e)
Contains(msg, needle) == ContainsAt(msg, needle, 1)

MsgRateLimit(secs) ==
    <<"Rate", "limit", "exceeded", ".", "Please", "wait", ToString(secs),
      "seconds", "before", "retrying", ".">>
MsgInvalidJSON == <<"Invalid", "JSON", "response", "from", "API">>
MsgStatus(code) ==
    <<"API", "request", "failed", "with", "status", "code", ToString(code)>>
MsgTimeout ==
    <<"Request", "timeout", ".", "Please", "check", "your", "internet", "connection", ".">>
MsgConnection ==
    <<"Connection", "error", ".", "Please", "check", "your", "internet", "connection", ".">>
MsgNetwork == <<"Network", "error", ":", "request", "exception">>
MsgIntLiteral(text) ==
    <<"invalid", "literal", "for", "int()", "with", "base", "10", ":", text>>
MsgSleepNegative == <<"sleep", "length", "must", "be", "non-negative">>

\* The failure taxonomy of the client, read off the message.
IsRateLimited(msg) == Contains(msg, <<"Rate", "limit", "exceeded">>)
IsNetworkFailure(msg) ==
    \/ Contains(msg, <<"Request", "timeout">>)
    \/ Contains(msg, <<"Connection", "error">>)
    \/ Contains(msg, <<"Network", "error">>)
IsUpstreamError(msg) == Contains(msg, <<"API", "request", "failed", "with", "status", "code">>)
IsMalformedResponse(msg) ==
    \/ Contains(msg, <<"Invalid", "JSON", "response">>)
    \/ Contains(msg, <<"Invalid", "season", "data", "response">>)

(***************************************************************************)
(* Outcomes of calls.                                                      *)
(***************************************************************************)
None == [none |-> TRUE]
Pending == [kind |-> "none", val |-> None, msg |-> <<>>, cls |-> ""]
Return(v) == [kind |-> "return", val |-> v, msg |-> <<>>, cls |-> ""]
Raise(cls, m) == [kind |-> "raise", val |-> None, msg |-> m, cls |-> cls]

\* An optional argument: None, or a string.
NoArg == [given |-> FALSE, text |-> ""]
Arg(t) == [given |-> TRUE, text |-> t]
\* Python's truth value of an optional string
Truthy(a) == a.given /\ a.text # ""

\* dict.get(key, default)
Get(d, key, default) == IF key \in DOMAIN d THEN d[key] ELSE default

\* str(int(x)) of a JSON integer
Str(x) == ToString(x)

\* The sequences over S of length at most n.
SeqUpTo(S, n) == UNION {[1..k -> S] : k \in 0..n}

(***************************************************************************)
(* The upstream: what one requests.get can produce.                        *)
(***************************************************************************)
NoHeader == [present |-> FALSE, text |-> ""]
Header(t) == [present |-> TRUE, text |-> t]
HttpDate == "Wed, 21 Oct 2026 07:28:00 GMT"
RetryAfterHeaders == {NoHeader, Header("60"), Header("7"), Header("-1"), Header(HttpDate)}

\* int(text) for the header texts of the model; Python raises ValueError on
\* a text that is not a decimal integer literal.
IsIntLiteral(text) == text \in {"60", "7", "-1"}
IntOf(text) ==
    CASE text = "60" -> 60
      [] text = "7" -> 7
      [] text = "-1" -> 0 - 1

Statuses == {200, 429, 404, 500}

Exceptions == {"Timeout", "ConnectionError", "RequestException"}

Exc(e) == [kind |-> e, status |-> 0, hdr |-> NoHeader, json |-> FALSE]
Resp(s, h, j) == [kind |-> "response", status |-> s, hdr |-> h, json |-> j]

\* The outcomes of one attempt, the decoded body apart.
Outcomes ==
    {Exc(e) : e \in Exceptions}
    \cup {Resp(429, h, FALSE) : h \in RetryAfterHeaders}
    \cup {Resp(200, NoHeader, j) : j \in BOOLEAN}
    \cup {Resp(s, NoHeader, FALSE) : s \in Statuses \ {200, 429}}

(***************************************************************************)
(* EPLAPI._make_request: one iteration of  for attempt in range(N + 1).    *)
(***************************************************************************)
\* (mutation) the header is not read
RetryAfterIgnoresHeader(hdr) == DefaultRetryAfter

\* int(response.headers.get('Retry-After', 60)), for a header that parses
RetryAfter(hdr) == IF hdr.present THEN IntOf(hdr.text) ELSE DefaultRetryAfter

\* (mutation) the last permitted attempt is retried as well
MayRetryOffByOne(a, c) == a <= c.max_retries

\* attempt < config.max_retries
MayRetry(a, c) == a < c.max_retries

\* range(config.max_retries + 1) still has the element a
InRange(a, c) == a >= 0 /\ a < c.max_retries + 1

\* A step of the loop body: the sleeps it makes and how it leaves the body
\* (mk = Pending: continue with the next attempt).
Continue(secs) == [sleep |-> <<secs>>, mk |-> Pending]
Leave(res) == [sleep |-> <<>>, mk |-> res]

\* time.sleep(secs); continue
SleepThenContinue(secs) ==
    IF secs < 0 THEN Leave(Raise("ValueError", MsgSleepNegative))
    ELSE Continue(secs)

\* (mutation) a 429 is retried after the fixed delay of the other branches
OnRateLimitFixedDelay(hdr, a, c) ==
    IF hdr.present /\ ~IsIntLiteral(hdr.text)
    THEN Leave(Raise("ValueError", MsgIntLiteral(hdr.text)))
    ELSE IF MayRetry(a, c) THEN SleepThenContinue(c.retry_delay)
    ELSE Leave(Raise("ValueError", MsgRateLimit(RetryAfter(hdr))))

\* the branch  if response.status_code == 429
OnRateLimit(hdr, a, c) ==
    IF hdr.present /\ ~IsIntLiteral(hdr.text)
    THEN Leave(Raise("ValueError", MsgIntLiteral(hdr.text)))
    ELSE IF MayRetry(a, c) THEN SleepThenContinue(RetryAfter(hdr))
    ELSE Leave(Raise("ValueError", MsgRateLimit(RetryAfter(hdr))))

\* the branches that follow for any other status
OnStatus(o, doc) ==
    IF o.status = 200
    THEN IF o.json THEN Leave(Return(doc))
         ELSE Leave(Raise("ValueError", MsgInvalidJSON))
    ELSE Leave(Raise("ValueError", MsgStatus(o.status)))

\* except requests.exceptions.Timeout / ConnectionError
OnTransient(msg, a, c) ==
    IF MayRetry(a, c) THEN SleepThenContinue(c.retry_delay)
    ELSE Leave(Raise("ValueError", msg))

\* (mutation) every status other than 200 is retried like a 429
LoopBodyRetriesAnyStatus(o, doc, a, c) ==
    CASE o.kind = "Timeout" -> OnTransient(MsgTimeout, a, c)
      [] o.kind = "ConnectionError" -> OnTransient(MsgConnection, a, c)
      [] o.kind = "RequestException" -> Leave(Raise("ValueError", MsgNetwork))
      [] o.kind = "response" /\ o.status # 200 -> OnRateLimit(o.hdr, a, c)
      [] o.kind = "response" /\ o.status = 200 -> OnStatus(o, doc)

\* the body of the loop: requests.get has produced o (and, decoded, doc)
LoopBody(o, doc, a, c) ==
    CASE o.kind = "Timeout" -> OnTransient(MsgTimeout, a, c)
      [] o.kind = "ConnectionError" -> OnTransient(MsgConnection, a, c)
      [] o.kind = "RequestException" -> Leave(Raise("ValueError", MsgNetwork))
      [] o.kind = "response" /\ o.status = 429 -> OnRateLimit(o.hdr, a, c)
      [] o.kind = "response" /\ o.status # 429 -> OnStatus(o, doc)

(***************************************************************************)
(* Decoded documents of the upstream, by endpoint.  A decoded JSON value   *)
(* is a record; a JSON array at top level is held in the field "list".     *)
(***************************************************************************)
TestDocs == {[test |-> "data"]}

SeasonLabels == {"2024/25", "2023/24"}
SeasonIds == {578, 719, 777}
SeasonEntries == [id : SeasonIds, label : SeasonLabels]
SeasonDocs ==
    {[error |-> "none"]}
    \cup {[content |-> ss] : ss \in SeqUpTo(SeasonEntries, MaxSeasons)}

TeamEntries ==
    { [id |-> 1, shortName |-> "Arsenal", teamType |-> "FIRST"],
      [id |-> 4, shortName |-> "Chelsea", teamType |-> "FIRST"],
      [id |-> 1001, shortName |-> "Arsenal U21", teamType |-> "U21"],
      [id |-> 1002, shortName |-> "Arsenal W"] }
ClubDocs == {[list |-> ts] : ts \in SeqUpTo(TeamEntries, MaxTeams)}

Overall1 ==
    [played |-> 10, won |-> 8, drawn |-> 1, lost |-> 1, goalsFor |-> 25,
     goalsAgainst |-> 8, goalsDifference |-> 17, points |-> 25]
Overall2 ==
    [played |-> 10, won |-> 7, drawn |-> 2, lost |-> 1, goalsFor |-> 22,
     goalsAgainst |-> 10, goalsDifference |-> 12, points |-> 23]
Overall3 == [played |-> 9, points |-> 4]
TableEntries ==
    { [position |-> 1, team |-> [id |-> 1, name |-> "Arsenal"], overall |-> Overall1],
      [position |-> 2, team |-> [id |-> 4, name |-> "Chelsea"], overall |-> Overall2],
      [position |-> 2, team |-> [id |-> 1, name |-> "Arsenal"], overall |-> Overall3],
      [position |-> 3, team |-> [name |-> "Fulham"]] }
TableDocs ==
    {[error |-> "none"], [tables |-> <<>>], [tables |-> <<[name |-> "main"]>>]}
    \cup {[tables |-> <<[entries |-> es]>>] : es \in SeqUpTo(TableEntries, MaxEntries)}
    \cup {[tables |-> <<[entries |-> <<e>>], [entries |-> <<>>]>>] : e \in TableEntries}

MaxItems == 2
ClubRankItems ==
    { [rank |-> 1, owner |-> [name |-> "Arsenal"], value |-> 25],
      [rank |-> 2, owner |-> [name |-> "Chelsea"], value |-> 22],
      [rank |-> 3] }
PlayerRankItems ==
    { [rank |-> 1, value |-> 15,
       owner |-> [name |-> [display |-> "Erling Haaland"],
                  currentTeam |-> [name |-> "Manchester City"],
                  nationalTeam |-> [country |-> "Norway"]]],
      [rank |-> 2, value |-> 12,
       owner |-> [name |-> [display |-> "Mohamed Salah"],
                  currentTeam |-> [name |-> "Liverpool"],
                  nationalTeam |-> [country |-> "Egypt"]]],
      [rank |-> 3, value |-> 0, owner |-> [name |-> [display |-> "Free Agent"]]] }
RankDocs(items) ==
    {[error |-> "none"], [stats |-> [page |-> 0]]}
    \cup {[stats |-> [content |-> is]] : is \in SeqUpTo(items, MaxItems)}

Haaland ==
    [id |-> 65970, name |-> [display |-> "Erling Haaland"],
     info |-> [position |-> "Forward"], currentTeam |-> [id |-> 1, name |-> "Arsenal"],
     nationalTeam |-> [country |-> "Norway"]]
Salah ==
    [id |-> 5178, name |-> [display |-> "Mohamed Salah"],
     info |-> [position |-> "Forward"], currentTeam |-> [id |-> 4, name |-> "Chelsea"],
     nationalTeam |-> [country |-> "Egypt"]]
\* a player of a squad that is not a first team
Palmer ==
    [id |-> 244851, name |-> [display |-> "Cole Palmer"],
     currentTeam |-> [id |-> 1001, name |-> "Arsenal U21"]]
\* a player without a current team
FreeAgent == [id |-> 7, name |-> [display |-> "Free Agent"], info |-> [position |-> "Defender"]]
\* an entry without identifier
Nameless == [name |-> [display |-> "Erling Haaland"], currentTeam |-> [id |-> 1, name |-> "Arsenal"]]

\* The pages of the player endpoint; the upstream answers page MaxPages and
\* every later page with an empty one.
MaxPages == 2
PlayerPages ==
    { <<>>, <<Haaland>>, <<Salah, Haaland>>, <<Palmer, FreeAgent, Salah>>,
      <<Haaland, Nameless>> }
PlayerDocs(page) ==
    {[error |-> "none"]}
    \cup {[content |-> ps] : ps \in (IF page < MaxPages THEN PlayerPages ELSE {<<>>})}

ClubInfoDocs == {[id |-> 1, name |-> "Arsenal"], [id |-> 1]}

\* The stats endpoints of a club and of a player: a flat list of name and
\* value under "stats".  The first is the shape of the fixtures of the tests.
StatsFull ==
    [stats |-> <<[name |-> "goals", value |-> 15], [name |-> "appearances", value |-> 10]>>]
StatsGoalsOnly == [stats |-> <<[name |-> "goals", value |-> 12]>>]
\* a document without the key "stats"
StatsAbsent == [entity |-> "none"]
\* an item without value
StatsBroken == [stats |-> <<[name |-> "goals"]>>]
StatsDocs == {StatsFull, StatsGoalsOnly, StatsAbsent, StatsBroken}

\* a player whose display name is another player's name in lower case
SalahNamesake ==
    [id |-> 90001, name |-> [display |-> "mohamed salah"],
     info |-> [position |-> "Goalkeeper"], currentTeam |-> [id |-> 1, name |-> "Arsenal"]]
\* What the upstream answers to the requests of a comparison: the club list
\* with the two first teams, one page of players, then the empty page.
CompareClubDocs == {[list |-> <<[id |-> 1, shortName |-> "Arsenal", teamType |-> "FIRST"],
                               [id |-> 4, shortName |-> "Chelsea", teamType |-> "FIRST"]>>]}
ComparePlayerDocs(page) ==
    {[content |-> ps] : ps \in (IF page = 0 THEN {<<Haaland, Salah>>, <<Salah>>, <<SalahNamesake, Salah>>}
                                   ELSE {<<>>})}

\* The documents the upstream can answer on the endpoint of a stage.
Docs(st) ==
    CASE st = "test" -> TestDocs
      [] st = "seasons" -> SeasonDocs
      [] st = "clubs" ->
            IF call.name = "get_player_comparison" THEN CompareClubDocs ELSE ClubDocs
      [] st = "standings" -> TableDocs
      [] st = "club_rankings" -> RankDocs(ClubRankItems)
      [] st = "player_rankings" -> RankDocs(PlayerRankItems)
      [] st = "players" ->
            IF call.name = "get_player_comparison" THEN ComparePlayerDocs(work.page)
            ELSE PlayerDocs(work.page)
      [] st = "club_info" -> ClubInfoDocs
      [] st = "club_stats" -> StatsDocs
      [] st = "player_stats" -> StatsDocs

(***************************************************************************)
(* constants.py: the stat catalogs and the output formats.                 *)
(***************************************************************************)
CLUB_STATS ==
    {"wins", "losses", "draws", "goals", "total_red_card", "total_yel_card"}
    \cup {"total_scoring_att", "ontarget_scoring_att", "hit_woodwork", "att_hd_goal",
          "att_pen_goal", "att_freekick_goal", "att_ibox_goal", "att_obox_goal",
          "goal_fastbreak", "total_offside"}
    \cup {"goals_conceded", "clean_sheet", "saves", "outfielder_block",
          "interceptions", "total_tackle", "penalty_save", "last_man_tackle",
          "total_clearance", "Headed clearances", "clearance_off_line", "own_goals",
          "penalty_conceded", "pen_goals_conceded", "dispossessed",
          "total_high_claim", "punches"}
    \cup {"total_pass", "total_through_ball", "touches", "total_long_balls",
          "backward_pass", "total_cross", "corner_taken"}

PLAYER_STATS ==
    {"appearances", "wins", "losses", "draws", "minsPlayed"}
    \cup {"goals", "goal_assist", "total_scoring_att", "ontarget_scoring_att",
          "hit_woodwork", "big_chance_created", "big_chance_missed", "att_pen_goal",
          "att_freekick_goal", "att_hd_goal", "att_ibox_goal", "att_obox_goal",
          "total_offside", "oal_fastbreak", "corner_taken"}
    \cup {"total_pass", "pass_success", "total_cross", "cross_accuracy",
          "total_through_ball", "total_long_balls", "touches", "key_passes"}
    \cup {"clean_sheet", "goals_conceded", "tackle_success", "last_man_tackle",
          "blocked_scoring_att", "interception", "clearance_off_line", "recoveries",
          "duel_won", "duel_lost", "aerial_won", "aerial_lost", "own_goals",
          "penalty_conceded"}
    \cup {"yellow_card", "red_card", "fouls", "offside"}
    \cup {"saves", "penalty_save", "punches", "high_claim", "catch",
          "sweeper_clearance", "throw_out", "goal_kicks"}

\* (mutation) every key is looked up in the club catalog
validate_stat_type_club_only(stat_type, stat_category) == stat_type \in CLUB_STATS

\* validate_stat_type(stat_type, stat_category)
validate_stat_type(stat_type, stat_category) ==
    CASE stat_category = "club" -> stat_type \in CLUB_STATS
      [] stat_category = "player" -> stat_type \in PLAYER_STATS
      [] OTHER -> FALSE

\* OutputFormats.is_valid
is_valid(format_type) == format_type \in {"json", "df"}

(***************************************************************************)
(* Messages of the projections.                                            *)
(***************************************************************************)
MsgInvalidOutput(fmt) ==
    <<"Invalid", "output", "format", fmt, ".", "Valid", "options", "are", ":", "json", ",", "df">>
MsgInvalidSeasonData == <<"Invalid", "season", "data", "response", "from", "API">>
MsgSeasonNotFound(label) ==
    <<"Season", label, "not", "found", ".", "Please", "check", "the", "season", "format">>
MsgNoSeasons == <<"No", "seasons", "available", "from", "API">>
MsgNoClubs(season) == <<"No", "clubs", "found", "for", "season", season>>
MsgNoTable(season) == <<"No", "table", "data", "found", "for", "season", season>>
MsgNoEntries(season) == <<"No", "standings", "entries", "found", "for", "season", season>>
MsgInvalidStat(stat) ==
    <<"Invalid", "statistic", "type", stat, ".", "Valid", "examples", "include", ":">>
MsgNoRanking(stat, season) ==
    <<"No", "ranking", "data", "found", "for", "statistic", stat, "in", "season", season>>
MsgNoneNotIterable == <<"argument", "of", "type", "NoneType", "is", "not", "iterable">>
MsgNoneNoGet == <<"NoneType", "object", "has", "no", "attribute", "get">>

IsInvalidArgument(msg) ==
    \/ Contains(msg, <<"Invalid", "statistic", "type">>)
    \/ Contains(msg, <<"Invalid", "output", "format">>)
IsNotFound(msg) == Contains(msg, <<"not", "found">>)
IsNoData(msg) ==
    \/ Contains(msg, <<"No", "seasons", "available">>)
    \/ Contains(msg, <<"No", "clubs", "found">>)
    \/ Contains(msg, <<"No", "table", "data", "found">>)
    \/ Contains(msg, <<"No", "standings", "entries", "found">>)
    \/ Contains(msg, <<"No", "ranking", "data", "found">>)

(***************************************************************************)
(* EPLAPI._format_output                                                   *)
(***************************************************************************)
\* (mutation) the table loses its last row
DataFrameDropsLastRow(data) ==
    [columns |-> UNION {DOMAIN data[i] : i \in 1..Len(data)},
     rows |-> SubSeq(data, 1, Len(data) - 1)]

\* pd.DataFrame(data): the rows under the union of their keys
DataFrame(data) ==
    [columns |-> UNION {DOMAIN data[i] : i \in 1..Len(data)}, rows |-> data]

\* the plain sequence of records
Plain(data) == [rows |-> data]

_format_output(data, output_format) ==
    IF ~is_valid(output_format)
    THEN Raise("ValueError", MsgInvalidOutput(output_format))
    ELSE IF output_format = "df" THEN Return(DataFrame(data))
    ELSE Return(Plain(data))

\* if output is None: output = config.default_output_format
OutputOf(output, c) == IF output.given THEN output.text ELSE c.default_output_format

\* an except clause that catches the classes in caught: handler(e), else e
Caught(r, caught) == r.kind = "raise" /\ r.cls \in caught

(***************************************************************************)
(* EPLAPI.get_season_id                                                    *)
(***************************************************************************)
\* (mutation) the first season is taken whatever its label
FirstSeasonAnyLabel(seasons, label, i) == IF seasons = <<>> THEN 0 ELSE 1

\* the index of the first season whose label is the one asked for, 0 if none
RECURSIVE FirstWithLabel(_, _, _)
FirstWithLabel(seasons, label, i) ==
    IF i > Len(seasons) THEN 0
    ELSE IF Get(seasons[i], "label", "") = label THEN i
    ELSE FirstWithLabel(seasons, label, i + 1)

\* (mutation) the comparison is turned around: the least id wins
RECURSIVE MinById(_, _, _)
MinById(seasons, i, best) ==
    IF i > Len(seasons) THEN best
    ELSE IF seasons[i].id < seasons[best].id THEN MinById(seasons, i + 1, i)
    ELSE MinById(seasons, i + 1, best)

\* max(seasons, key=lambda x: x["id"]): the first season of greatest id
RECURSIVE MaxById(_, _, _)
MaxById(seasons, i, best) ==
    IF i > Len(seasons) THEN best
    ELSE IF seasons[i].id > seasons[best].id THEN MaxById(seasons, i + 1, i)
    ELSE MaxById(seasons, i + 1, best)

LatestSeason(seasons) == seasons[MaxById(seasons, 2, 1)]

\* the body of the try block, given the outcome m of _make_request
SeasonTry(season_label, m) ==
    IF m.kind = "raise" THEN m
    ELSE IF m.val = None THEN Raise("TypeError", MsgNoneNotIterable)
    ELSE IF "content" \notin DOMAIN m.val THEN Raise("ValueError", MsgInvalidSeasonData)
    ELSE LET seasons == m.val.content
             hit == FirstWithLabel(seasons, season_label.text, 1)
         IN IF Truthy(season_label)
            THEN IF hit # 0 THEN Return(Str(seasons[hit].id))
                 ELSE Raise("ValueError", MsgSeasonNotFound(season_label.text))
            ELSE IF seasons = <<>> THEN Raise("ValueError", MsgNoSeasons)
            ELSE Return(Str(LatestSeason(seasons).id))

\* except (KeyError, ValueError, TypeError) as e
SeasonExcept(r) ==
    IF ~Caught(r, {"KeyError", "ValueError", "TypeError"}) THEN r
    ELSE IF \/ Contains(r.msg, <<"Season">>)
            \/ Contains(r.msg, <<"not", "found">>)
            \/ Contains(r.msg, <<"Invalid">>)
         THEN r
    ELSE Raise("ValueError", <<"Error", "processing", "season", "data", ":">> \o r.msg)

get_season_id(season_label, m) == SeasonExcept(SeasonTry(season_label, m))

(***************************************************************************)
(* EPLAPI.get_club_ids                                                     *)
(***************************************************************************)
\* (mutation) the team type is not looked at
IsAnyTeam(team) == TRUE

\* team.get("teamType") == "FIRST"
IsFirstTeam(team) == "teamType" \in DOMAIN team /\ team.teamType = "FIRST"

ClubRecord(team) ==
    ("Name" :> Get(team, "shortName", None)) @@ ("Team ID" :> Str(team.id))

ClubsTry(season_id, output, m) ==
    IF m.kind = "raise" THEN m
    ELSE IF m.val = None THEN Raise("TypeError", MsgNoneNotIterable)
    ELSE LET firsts == SelectSeq(m.val.list, IsFirstTeam)
             team_data == [i \in 1..Len(firsts) |-> ClubRecord(firsts[i])]
         IN IF team_data = <<>> THEN Raise("ValueError", MsgNoClubs(season_id))
            ELSE _format_output(team_data, output)

ClubsExcept(r) ==
    IF ~Caught(r, {"KeyError", "ValueError", "TypeError"}) THEN r
    ELSE IF Contains(r.msg, <<"No", "clubs", "found">>) THEN r
    ELSE Raise("ValueError", <<"Error", "processing", "club", "data", ":">> \o r.msg)

get_club_ids(season_id, output, m) == ClubsExcept(ClubsTry(season_id, output, m))

(***************************************************************************)
(* EPLAPI.get_club_tables                                                  *)
(***************************************************************************)
EmptyDict == <<>>

\* str(team.get("id", ""))
ClubIdOf(team) == IF "id" \in DOMAIN team THEN Str(team.id) ELSE ""

TableRecord(entry) ==
    LET team == Get(entry, "team", EmptyDict)
        overall == Get(entry, "overall", EmptyDict)
    IN ("Position" :> entry.position)
       @@ ("Club" :> Get(team, "name", None))
       @@ ("Club ID" :> ClubIdOf(team))
       @@ ("Played" :> Get(overall, "played", 0))
       @@ ("Won" :> Get(overall, "won", 0))
       @@ ("Drawn" :> Get(overall, "drawn", 0))
       @@ ("Lost" :> Get(overall, "lost", 0))
       @@ ("Goals For" :> Get(overall, "goalsFor", 0))
       @@ ("Goals Against" :> Get(overall, "goalsAgainst", 0))
       @@ ("Goal Difference" :> Get(overall, "goalsDifference", 0))
       @@ ("Points" :> Get(overall, "points", 0))

\* r put into the sorted rows behind every row whose key is not greater
RECURSIVE InsertByPosition(_, _)
InsertByPosition(r, rows) ==
    IF rows = <<>> THEN <<r>>
    ELSE IF rows[Len(rows)]["Position"] <= r["Position"] THEN Append(rows, r)
    ELSE Append(InsertByPosition(r, SubSeq(rows, 1, Len(rows) - 1)), rows[Len(rows)])

\* (mutation) the rows are left in upstream order
Unsorted(rows) == rows

\* table_data.sort(key=lambda x: x["Position"]): a stable sort
RECURSIVE SortByPosition(_)
SortByPosition(rows) ==
    IF rows = <<>> THEN <<>>
    ELSE InsertByPosition(rows[Len(rows)], SortByPosition(SubSeq(rows, 1, Len(rows) - 1)))

TablesTry(season_id, output, m) ==
    IF m.kind = "raise" THEN m
    ELSE IF m.val = None THEN Raise("AttributeError", MsgNoneNoGet)
    ELSE LET tables == Get(m.val, "tables", <<>>)
         IN IF tables = <<>> THEN Raise("ValueError", MsgNoTable(season_id))
            ELSE LET entries == Get(tables[1], "entries", <<>>)
                     table_data == [i \in 1..Len(entries) |-> TableRecord(entries[i])]
                 IN IF entries = <<>> THEN Raise("ValueError", MsgNoEntries(season_id))
                    ELSE _format_output(SortByPosition(table_data), output)

TablesExcept(r) ==
    IF ~Caught(r, {"KeyError", "TypeError"}) THEN r
    ELSE Raise("ValueError", <<"Error", "processing", "club", "table", "data", ":">> \o r.msg)

get_club_tables(season_id, output, m) == TablesExcept(TablesTry(season_id, output, m))

(***************************************************************************)
(* EPLAPI.get_club_rankings, EPLAPI.get_player_rankings                    *)
(***************************************************************************)
\* (mutation) the content is looked for at the top level of the document
StatsContentTopLevel(doc) == Get(doc, "content", <<>>)

\* response.get("stats", {}).get("content", [])
StatsContent(doc) == Get(Get(doc, "stats", EmptyDict), "content", <<>>)

ClubRankRecord(item) ==
    ("Rank" :> Get(item, "rank", None))
    @@ ("Club" :> Get(Get(item, "owner", EmptyDict), "name", None))
    @@ ("Stat" :> Get(item, "value", None))

ClubRankingsTry(stat_type, season_id, output, m) ==
    IF m.kind = "raise" THEN m
    ELSE IF m.val = None THEN Raise("AttributeError", MsgNoneNoGet)
    ELSE LET content == StatsContent(m.val)
             data == [i \in 1..Len(content) |-> ClubRankRecord(content[i])]
         IN IF data = <<>> THEN Raise("ValueError", MsgNoRanking(stat_type, season_id))
            ELSE _format_output(data, output)

ClubRankingsExcept(r, stat_type) ==
    IF ~Caught(r, {"KeyError", "TypeError"}) THEN r
    ELSE Raise("ValueError",
               <<"Error", "processing", "club", "rankings", "for", stat_type, ":">> \o r.msg)

get_club_rankings(stat_type, season_id, output, m) ==
    ClubRankingsExcept(ClubRankingsTry(stat_type, season_id, output, m), stat_type)

PlayerRankRecord(item, c) ==
    LET player == Get(item, "owner", EmptyDict)
        base == ("Rank" :> Get(item, "rank", None))
                @@ ("Player" :> Get(Get(player, "name", EmptyDict), "display", None))
                @@ ("Club" :> Get(Get(player, "currentTeam", EmptyDict), "name", None))
                @@ ("Stat" :> Get(item, "value", None))
    IN IF c.include_nationality
       THEN base @@ ("Nationality" :>
                        Get(Get(player, "nationalTeam", EmptyDict), "country", None))
       ELSE base

PlayerRankingsTry(stat_type, season_id, output, m, c) ==
    IF m.kind = "raise" THEN m
    ELSE IF m.val = None THEN Raise("AttributeError", MsgNoneNoGet)
    ELSE LET content == StatsContent(m.val)
             data == [i \in 1..Len(content) |-> PlayerRankRecord(content[i], c)]
         IN IF data = <<>> THEN Raise("ValueError", MsgNoRanking(stat_type, season_id))
            ELSE _format_output(data, output)

PlayerRankingsExcept(r, stat_type) ==
    IF ~Caught(r, {"KeyError", "TypeError"}) THEN r
    ELSE IF Contains(r.msg, <<"No", "ranking", "data", "found">>) THEN r
    ELSE Raise("ValueError",
               <<"Error", "processing", "player", "rankings", "for", stat_type, ":">> \o r.msg)

get_player_rankings(stat_type, season_id, output, m, c) ==
    PlayerRankingsExcept(PlayerRankingsTry(stat_type, season_id, output, m, c), stat_type)

(***************************************************************************)
(* Python strings where the client looks inside them: a string is spelled  *)
(* as the sequence of its characters.                                      *)
(***************************************************************************)
Spell(str) ==
    CASE str = "Erling Haaland" ->
            <<"E", "r", "l", "i", "n", "g", " ", "H", "a", "a", "l", "a", "n", "d">>
      [] str = "Mohamed Salah" ->
            <<"M", "o", "h", "a", "m", "e", "d", " ", "S", "a", "l", "a", "h">>
      [] str = "Cole Palmer" -> <<"C", "o", "l", "e", " ", "P", "a", "l", "m", "e", "r">>
      [] str = "Free Agent" -> <<"F", "r", "e", "e", " ", "A", "g", "e", "n", "t">>
      [] str = "mohamed salah" ->
            <<"m", "o", "h", "a", "m", "e", "d", " ", "s", "a", "l", "a", "h">>
      [] str = "erlinghaaland" ->
            <<"e", "r", "l", "i", "n", "g", "h", "a", "a", "l", "a", "n", "d">>
      [] str = "SALAH" -> <<"S", "A", "L", "A", "H">>
      [] str = "Harry Kane" -> <<"H", "a", "r", "r", "y", " ", "K", "a", "n", "e">>
      [] str = "a" -> <<"a">>
      [] str = "" -> <<>>

UpperCase == <<"A", "C", "E", "F", "H", "K", "L", "M", "P", "S">>
LowerCase == <<"a", "c", "e", "f", "h", "k", "l", "m", "p", "s">>

\* str.lower(), on the spelling
Lower(chars) ==
    [i \in 1..Len(chars) |->
        IF \E k \in 1..Len(UpperCase) : UpperCase[k] = chars[i]
        THEN LowerCase[CHOOSE k \in 1..Len(UpperCase) : UpperCase[k] = chars[i]]
        ELSE chars[i]]

NotSpace(ch) == ch # " "
\* str.replace(" ", ""), on the spelling
NoSpaces(chars) == SelectSeq(chars, NotSpace)

\* (mutation) the match is case-sensitive
NameMatchesCaseSensitive(name, display) == Contains(Spell(display), Spell(name))

\* name.lower() in display.lower()
NameMatches(name, display) == Contains(Lower(Spell(display)), Lower(Spell(name)))

(***************************************************************************)
(* EPLAPI.get_player_list, EPLAPI.search_player_by_name                    *)
(***************************************************************************)
MsgClubNotFound(club_id) ==
    <<"Club", "ID", club_id, "not", "found", ".", "Use", "get_club_ids()", "or",
      "get_club_tables()", "to", "find", "valid", "club", "IDs", ".">>
MsgNoPlayersSeason(season) == <<"No", "players", "found", "for", "season", season>>
MsgNoPlayersClub(club_name, club_id, season) ==
    <<"No", "players", "found", "for", "club", club_name, "(ID:", club_id, ")",
      "in", "season", season>>
MsgNoMatch(name, season) ==
    <<"No", "players", "found", "matching", name, "in", "season", season, ".",
      "Please", "check", "the", "spelling">>
\* str(KeyError(key))
MsgKeyError(key) == <<key>>

\* the key under which the club records hold the identifier (api.py:468, 476)
TeamIdKey == "Team ID"

\* {club["Team ID"] for club in club_ids_data}: KeyError when a record has no such key
TeamIds(rows) ==
    IF \E i \in 1..Len(rows) : TeamIdKey \notin DOMAIN rows[i]
    THEN Raise("KeyError", MsgKeyError(TeamIdKey))
    ELSE Return([ids |-> {rows[i][TeamIdKey] : i \in 1..Len(rows)}])

\* api.py:463-478: the valid team ids, from the outcome m of the club request
ValidTeamIds(season_id, club_id, m) ==
    LET clubs == get_club_ids(season_id, "json", m)
        ids == TeamIds(clubs.val.rows)
    IN IF clubs.kind = "raise" THEN clubs
       ELSE IF ids.kind = "raise" THEN ids
       ELSE IF ~club_id.given THEN ids
       ELSE IF club_id.text \notin ids.val.ids
            THEN Raise("ValueError", MsgClubNotFound(club_id.text))
       ELSE Return([ids |-> {club_id.text}])

\* str(int(team.get("id"))) if team and team.get("id") is not None else None
TeamIdOf(player) ==
    LET team == Get(player, "currentTeam", EmptyDict)
    IN IF team # EmptyDict /\ "id" \in DOMAIN team THEN Arg(Str(team.id)) ELSE NoArg

\* (mutation) the filter keeps every player
KeptWhateverClub(player, club_id, valid, c) == TRUE

\* the filter of api.py:501-508: FALSE where the loop says continue
Kept(player, club_id, valid, c) ==
    LET team_id == TeamIdOf(player)
    IN IF club_id.given
       THEN team_id.given /\ team_id.text = club_id.text
       ELSE ~(c.filter_first_team_only /\ ~(team_id.given /\ team_id.text \in valid))

\* api.py:510-519, for a player that has the keys the record indexes
PlayerRecord(player, c) ==
    LET team == Get(player, "currentTeam", EmptyDict)
        base == ("ID" :> Str(player.id))
                @@ ("Name" :> player.name.display)
                @@ ("Position" :> Get(Get(player, "info", EmptyDict), "position", None))
                @@ ("Current Team" :> Get(team, "name", None))
    IN IF c.include_nationality
       THEN base @@ ("Nationality" :>
                        Get(Get(player, "nationalTeam", EmptyDict), "country", None))
       ELSE base

\* (mutation) the players of a page are put in front of those of earlier pages
RECURSIVE AddPagePrepends(_, _, _, _, _, _)
AddPagePrepends(content, i, players, club_id, valid, c) ==
    IF i > Len(content) THEN Return([players |-> players])
    ELSE IF ~Kept(content[i], club_id, valid, c)
         THEN AddPagePrepends(content, i + 1, players, club_id, valid, c)
    ELSE IF "id" \notin DOMAIN content[i] THEN Raise("KeyError", MsgKeyError("id"))
    ELSE IF "name" \notin DOMAIN content[i] THEN Raise("KeyError", MsgKeyError("name"))
    ELSE AddPagePrepends(content, i + 1, <<PlayerRecord(content[i], c)>> \o players,
                         club_id, valid, c)

\* for player in content (api.py:496-521): the list after the page, or the
\* exception that ended the loop
RECURSIVE AddPage(_, _, _, _, _, _)
AddPage(content, i, players, club_id, valid, c) ==
    IF i > Len(content) THEN Return([players |-> players])
    ELSE IF ~Kept(content[i], club_id, valid, c)
         THEN AddPage(content, i + 1, players, club_id, valid, c)
    ELSE IF "id" \notin DOMAIN content[i] THEN Raise("KeyError", MsgKeyError("id"))
    ELSE IF "name" \notin DOMAIN content[i] THEN Raise("KeyError", MsgKeyError("name"))
    ELSE AddPage(content, i + 1, Append(players, PlayerRecord(content[i], c)),
                 club_id, valid, c)

\* except (KeyError, ValueError, TypeError) as e  (api.py:540-543)
PlayerListExcept(r) ==
    IF ~Caught(r, {"KeyError", "ValueError", "TypeError"}) THEN r
    ELSE IF \/ Contains(r.msg, <<"not", "found">>)
            \/ Contains(r.msg, <<"No", "players", "found">>)
         THEN r
    ELSE Raise("ValueError", <<"Error", "processing", "player", "list", ":">> \o r.msg)

\* (mutation) the club id stands in when get_club_info failed
ClubNameOfFallsBackToId(club_id, m) ==
    IF m.kind = "raise" \/ m.val = None THEN club_id
    ELSE Get(m.val, "name", club_id)

\* club_info.get("name", club_id), "Unknown" when get_club_info failed
ClubNameOf(club_id, m) ==
    IF m.kind = "raise" \/ m.val = None THEN "Unknown"
    ELSE Get(m.val, "name", club_id)

\* search_player_by_name (api.py:562-577), given the outcome r of get_player_list
SearchTry(name, season_id, output, r) ==
    IF r.kind = "raise" THEN r
    ELSE LET matches(player) == NameMatches(name, player["Name"])
             filtered_players == SelectSeq(r.val.rows, matches)
         IN IF filtered_players = <<>> THEN Raise("ValueError", MsgNoMatch(name, season_id))
            ELSE _format_output(filtered_players, output)

\* except Exception as e
SearchExcept(r, name) ==
    IF r.kind # "raise" THEN r
    ELSE IF Contains(r.msg, <<"No", "players", "found", "matching">>) THEN r
    ELSE Raise("ValueError", <<"Error", "searching", "for", "player", name, ":">> \o r.msg)

search_player_by_name(name, season_id, output, r) ==
    SearchExcept(SearchTry(name, season_id, output, r), name)

\* get_player_id (api.py:594-596), given the outcome r of get_player_list
get_player_id(name, season_id, r) ==
    LET matches == search_player_by_name(name, season_id, "json", r)
    IN IF matches.kind = "raise" THEN matches
       ELSE Return([value |-> matches.val.rows[1]["ID"]])

(***************************************************************************)
(* EPLAPI.get_club_stats, EPLAPI.get_player_stats                          *)
(***************************************************************************)
MsgStatNotFound(stat) ==
    <<"Statistic", stat, "not", "found", "for", "this", "club", ".", "Available",
      "examples", ":">>

\* the index of the first item that lacks "name" or "value", 0 if none does
RECURSIVE FirstBroken(_, _)
FirstBroken(stats_list, i) ==
    IF i > Len(stats_list) THEN 0
    ELSE IF {"name", "value"} \subseteq DOMAIN stats_list[i] THEN FirstBroken(stats_list, i + 1)
    ELSE i

\* of two items with one name the dict keeps the later value
LastValue(stats_list, name) ==
    stats_list[CHOOSE i \in 1..Len(stats_list) :
                  /\ stats_list[i].name = name
                  /\ \A j \in (i + 1)..Len(stats_list) : stats_list[j].name # name].value

\* {item["name"]: item["value"] for item in stats_list}
StatsDict(stats_list) ==
    LET b == FirstBroken(stats_list, 1)
    IN IF b # 0
       THEN Raise("KeyError",
                  MsgKeyError(IF "name" \in DOMAIN stats_list[b] THEN "value" ELSE "name"))
       ELSE Return([n \in {stats_list[i].name : i \in 1..Len(stats_list)} |->
                       LastValue(stats_list, n)])

\* the stat names of the model in the order sort_values("Stat") puts them
StatNamesSorted == <<"appearances", "goal_assist", "goals", "mins_played">>

\* the frame sorted descending by stat name
StatsFrameDescending(stats_dict) ==
    LET has(n) == n \in DOMAIN stats_dict
        names == SelectSeq(StatNamesSorted, has)
        k == Len(names)
    IN [columns |-> {"Stat", "Value"},
        rows |-> [i \in 1..k |->
                     [Stat |-> names[k + 1 - i], Value |-> stats_dict[names[k + 1 - i]]]]]

\* pd.DataFrame(list(stats_dict.items()), columns=["Stat", "Value"]).sort_values("Stat")
StatsFrame(stats_dict) ==
    LET has(n) == n \in DOMAIN stats_dict
        names == SelectSeq(StatNamesSorted, has)
    IN [columns |-> {"Stat", "Value"},
        rows |-> [i \in 1..Len(names) |-> [Stat |-> names[i], Value |-> stats_dict[names[i]]]]]

\* the try block of get_club_stats (api.py:343-365), m the outcome of the request
ClubStatsTry(stat_type, output, m) ==
    IF m.kind = "raise" THEN m
    ELSE IF m.val = None THEN Raise("AttributeError", MsgNoneNoGet)
    ELSE LET d == StatsDict(Get(m.val, "stats", <<>>))
         IN IF d.kind = "raise" THEN d
            ELSE IF Truthy(stat_type)
                 THEN IF stat_type.text \notin DOMAIN d.val
                      THEN Raise("ValueError", MsgStatNotFound(stat_type.text))
                      ELSE Return([value |-> d.val[stat_type.text]])
            ELSE IF output = "df" THEN Return(StatsFrame(d.val))
            ELSE Return([map |-> d.val])

\* except (KeyError, TypeError) as e
ClubStatsExcept(r) ==
    IF ~Caught(r, {"KeyError", "TypeError"}) THEN r
    ELSE IF Contains(r.msg, <<"not", "found">>) THEN r
    ELSE Raise("ValueError", <<"Error", "processing", "club", "statistics", ":">> \o r.msg)

get_club_stats(club_id, season_id, stat_type, output, m) ==
    ClubStatsExcept(ClubStatsTry(stat_type, output, m))

\* get_player_stats: the document of the request, or its failure wrapped
get_player_stats(player_id, season_id, m) ==
    IF m.kind = "raise"
    THEN Raise("ValueError",
               <<"Error", "getting", "statistics", "for", "player", "ID", player_id, ":">>
                   \o m.msg)
    ELSE m

(***************************************************************************)
(* EPLAPI.get_player_comparison                                            *)
(***************************************************************************)
MsgTooFewPlayers == <<"At", "least", "2", "players", "are", "required", "for", "comparison">>
MsgDuplicateNames == <<"Duplicate", "player", "names", "found", "in", "the", "list">>
MsgPlayerNotFound(name, season) ==
    <<"Player", name, "not", "found", "in", "season", season>>

DefaultStats == <<"appearances", "mins_played", "goals", "goal_assist">>
\* stats_to_compare: None, or a list
NoStats == [given |-> FALSE, list |-> <<>>]
Stats(l) == [given |-> TRUE, list |-> l]
StatsOf(stats_to_compare) ==
    IF stats_to_compare.given THEN stats_to_compare.list ELSE DefaultStats

\* (mutation) only a name next to its repetition counts
HasDuplicatesAdjacentOnly(player_names) ==
    \E i \in 1..(Len(player_names) - 1) :
        player_names[i] = player_names[i + 1] /\ Len(player_names) > 2

\* len(set(player_names)) != len(player_names)
HasDuplicates(player_names) ==
    Cardinality({player_names[i] : i \in 1..Len(player_names)}) # Len(player_names)

\* the validation of api.py:651-655: the failure, or Pending where the call goes on
CompareValidate(player_names) ==
    IF Len(player_names) < 2 THEN Raise("ValueError", MsgTooFewPlayers)
    ELSE IF HasDuplicates(player_names) THEN Raise("ValueError", MsgDuplicateNames)
    ELSE Pending

\* [name, name.lower(), name.replace(" ", "").lower()], on the spelling
Variations(chars) == <<chars, Lower(chars), Lower(NoSpaces(chars))>>

\* the value players_info_map gets from a row of the player list
InfoOf(row) ==
    [id |-> row["ID"], name |-> row["Name"],
     position |-> Get(row, "Position", None), team |-> Get(row, "Current Team", None)]

\* the rows of the player list that put their info under the key v
RowsUnder(v, all_players_list) ==
    {i \in 1..Len(all_players_list) :
        \E k \in 1..3 : Variations(Spell(all_players_list[i]["Name"]))[k] = v}

Least(S) == CHOOSE x \in S : \A y \in S : x <= y
Greatest(S) == CHOOSE x \in S : \A y \in S : x >= y

\* api.py:680-708: the first search variation that is a key of the map gives
\* the row that wrote the key last; else the first row whose name contains
\* the name, case folded
ResolvePlayer(player_name, season_id, all_players_list) ==
    LET vs == Variations(Spell(player_name))
        hits == {k \in 1..3 : RowsUnder(vs[k], all_players_list) # {}}
        similar == {i \in 1..Len(all_players_list) :
                        NameMatches(player_name, all_players_list[i]["Name"])}
    IN IF hits # {}
       THEN Return(InfoOf(all_players_list[Greatest(RowsUnder(vs[Least(hits)],
                                                              all_players_list))]))
       ELSE IF similar # {} THEN Return(InfoOf(all_players_list[Least(similar)]))
       ELSE Raise("ValueError", MsgPlayerNotFound(player_name, season_id))

\* stats_dict.get(stat, 0) for every stat of stats_to_compare
PlayerComparisonData(stats_dict, stats) ==
    [s \in {stats[i] : i \in 1..Len(stats)} |-> Get(stats_dict, s, 0)]

\* api.py:715-737: the entry of players_data, given the info of the player
\* and the outcome r of get_player_stats
PlayerData(player_name, player_info, stats, r) ==
    IF r.kind = "raise" THEN r
    ELSE IF r.val = None THEN Raise("AttributeError", MsgNoneNoGet)
    ELSE LET d == StatsDict(Get(r.val, "stats", <<>>))
         IN IF d.kind = "raise" THEN d
            ELSE Return([key |-> player_name, name |-> player_info.name,
                         position |-> player_info.position, team |-> player_info.team,
                         stats |-> PlayerComparisonData(d.val, stats)])

\* {"name": player_name, "error": str(e)}
Failed(player_name, r) == [name |-> player_name, error |-> r.msg]

RECURSIVE FailedTexts(_, _)
FailedTexts(failed_players, i) ==
    IF i > Len(failed_players) THEN <<>>
    ELSE <<failed_players[i].name, "(">> \o failed_players[i].error \o <<")">>
            \o FailedTexts(failed_players, i + 1)

MsgNotEnough(players_data, failed_players) ==
    <<"Failed", "to", "get", "data", "for", "enough", "players", ".",
      "Successful:", ToString(Len(players_data)), ",",
      "Failed:", ToString(Len(failed_players))>>
    \o (IF failed_players = <<>> THEN <<>>
        ELSE <<"Failed", "players", ":">> \o FailedTexts(failed_players, 1))

RECURSIVE Sum(_, _)
Sum(values, i) == IF i > Len(values) THEN 0 ELSE values[i] + Sum(values, i + 1)

RECURSIVE Gcd(_, _)
Gcd(a, b) == IF b = 0 THEN a ELSE Gcd(b, a % b)

\* the quotient n / d of Python's true division, as a fraction in lowest terms
Quotient(n, d) ==
    LET g == Gcd(n, d) IN IF g = 0 THEN [num |-> 0, den |-> 1] ELSE [num |-> n \div g, den |-> d \div g]

\* (mutation) the mean divides by the number of names asked for
StatsInfoOverRequested(players_data, failed_players, stats) ==
    [s \in {stats[i] : i \in 1..Len(stats)} |->
        LET values == [i \in 1..Len(players_data) |-> players_data[i].stats[s]]
            seen == {values[i] : i \in 1..Len(values)}
        IN [min |-> Least(seen), max |-> Greatest(seen),
            mean |-> Quotient(Sum(values, 1), Len(values) + Len(failed_players))]]

\* api.py:752-768: min, max and mean of every stat over players_data
StatsInfo(players_data, failed_players, stats) ==
    [s \in {stats[i] : i \in 1..Len(stats)} |->
        LET values == [i \in 1..Len(players_data) |-> players_data[i].stats[s]]
            seen == {values[i] : i \in 1..Len(values)}
        IN [min |-> Least(seen), max |-> Greatest(seen),
            mean |-> Quotient(Sum(values, 1), Len(values))]]

\* the table of api.py:782-793: a row per entry of players_data, the display
\* names as index
CompareFrame(players_data, stats) ==
    [columns |-> {"Position", "Team"} \cup {stats[i] : i \in 1..Len(stats)},
     index |-> [i \in 1..Len(players_data) |-> players_data[i].name],
     rows |-> [i \in 1..Len(players_data) |->
                  players_data[i].stats
                  @@ ("Position" :> players_data[i].position)
                  @@ ("Team" :> players_data[i].team)]]

\* (mutation) the failed names are left out of the result
ResultDataDropsFailed(players_data, failed_players, stats, season_id) ==
    [players |-> players_data, stats_compared |-> stats,
     stats_info |-> StatsInfo(players_data, failed_players, stats), season_id |-> season_id]

\* result_data of api.py:770-779
ResultData(players_data, failed_players, stats, season_id) ==
    LET base == [players |-> players_data, stats_compared |-> stats,
                 stats_info |-> StatsInfo(players_data, failed_players, stats),
                 season_id |-> season_id]
    IN IF failed_players = <<>> THEN base
       ELSE base @@ ("failed_players" :> failed_players)

\* api.py:743-795: what the call ends with once every name has been tried
CompareEnd(players_data, failed_players, stats, season_id, output) ==
    IF Len(players_data) < 2
    THEN Raise("ValueError", MsgNotEnough(players_data, failed_players))
    ELSE IF output = "df" THEN Return(CompareFrame(players_data, stats))
    ELSE Return(ResultData(players_data, failed_players, stats, season_id))

(***************************************************************************)
(* EPLAPI.__init__ and the configuration object of config.py.              *)
(***************************************************************************)
\* what class APIConfig defines (config.py:13-154) and what its __init__
\* sets on the instance
APIConfigMembers ==
    {"DEFAULT_CONFIG", "__init__", "_load_config_file", "_load_environment_variables",
     "_merge_config", "get", "get_headers", "get_root_url", "get_timeout",
     "get_max_retries", "get_retry_delay", "get_default_page_size", "get_max_page_size",
     "get_premier_league_id", "get_comp_code", "config"}

MsgNoAttribute(cls, name) == <<cls, "object", "has", "no", "attribute", name>>

\* custom_config: None, or a mapping given as the sequence of its items
NoConfig == [given |-> FALSE, items |-> <<>>]
Mapping(items) == [given |-> TRUE, items |-> items]

\* (mutation) the configuration object has every method that is called on it
HasAttrAny(members, name) == TRUE

\* the attribute lookup of a method call on an object with these members
HasAttr(members, name) == name \in members

\* for key, value in custom_config.items(): config.set(key, value)
\* (api.py:20-21): the outcome of the constructor and the configuration it
\* leaves.  The lookup of set fails on the first item; past a lookup that
\* succeeds the value would be stored under the key.
RECURSIVE InitItems(_, _, _)
InitItems(items, i, c) ==
    IF i > Len(items) THEN [out |-> Return(None), cfg |-> c]
    ELSE IF ~HasAttr(APIConfigMembers, "set")
         THEN [out |-> Raise("AttributeError", MsgNoAttribute("APIConfig", "set")), cfg |-> c]
    ELSE InitItems(items, i + 1,
                   IF items[i].key \in DOMAIN c
                   THEN [c EXCEPT ![items[i].key] = items[i].value] ELSE c)

\* EPLAPI.__init__ (api.py:17-21): the loop runs for a mapping that is not empty
EPLAPI(custom_config, c) ==
    IF custom_config.given /\ custom_config.items # <<>>
    THEN InitItems(custom_config.items, 1, c)
    ELSE [out |-> Return(None), cfg |-> c]

(***************************************************************************)
(* The arguments the calls are made with.                                  *)
(***************************************************************************)
LabelArgs == {NoArg, Arg(""), Arg("2024/25"), Arg("2023/24"), Arg("2026/27")}
SeasonArgs == {"719"}
OutputArgs == {NoArg, Arg("json"), Arg("df"), Arg("xml")}
StatArgs == {"goals", "total_red_card", "appearances", "goal_fastbreak", "not_a_stat"}
ClubIdArgs == {NoArg, Arg("1"), Arg("4"), Arg("99")}
QueryArgs == {"SALAH", "a", "Harry Kane"}
\* every club filter under the default output, every output without filter
PlayerListArgs ==
    {[output |-> NoArg, club_id |-> c] : c \in ClubIdArgs}
    \cup {[output |-> f, club_id |-> NoArg] : f \in OutputArgs}
\* every query under the default output, every output for one query
SearchArgs ==
    {[output |-> NoArg, name |-> n] : n \in QueryArgs}
    \cup {[output |-> f, name |-> "a"] : f \in OutputArgs}

\* the name lists of a comparison: too short, with a repeated name, the pair
\* of the tests, other spellings of it, a list with a name nobody has and a
\* part of a name, and one player under two spellings
NameLists ==
    { <<"Erling Haaland">>,
      <<"Mohamed Salah", "Mohamed Salah">>,
      <<"Erling Haaland", "Mohamed Salah">>,
      <<"erlinghaaland", "mohamed salah">>,
      <<"Erling Haaland", "Harry Kane", "SALAH">>,
      <<"Mohamed Salah", "mohamed salah">> }
StatsArgs == {NoStats, Stats(<<"goals">>), Stats(<<"goals", "appearances">>)}
\* every name list under the default output, every output and stats list
\* for the pair of the tests
CompareArgs ==
    {[names |-> l, stats |-> Stats(<<"goals", "appearances">>), output |-> NoArg] :
        l \in NameLists}
    \cup {[names |-> <<"Erling Haaland", "Mohamed Salah">>, stats |-> t, output |-> f] :
              t \in StatsArgs, f \in OutputArgs}
ClubStatsArgs == [stat_type : {NoArg, Arg("goals"), Arg("wins")}, output : OutputArgs]

\* no mapping, the empty mapping, the mapping of the tests, and mappings of
\* settings the calls read
ConfigArgs ==
    {NoConfig, Mapping(<<>>), Mapping(<<[key |-> "request.timeout", value |-> 60]>>),
     Mapping(<<[key |-> "max_retries", value |-> 0]>>),
     Mapping(<<[key |-> "default_output_format", value |-> "df"],
               [key |-> "max_retries", value |-> 0 - 1]>>)}

NoCall == [name |-> "", arg |-> NoArg, season |-> NoArg, output |-> NoArg]
Call(name, arg, season, output) ==
    [name |-> name, arg |-> arg, season |-> season, output |-> output]

(***************************************************************************)
(* Initial states: the configuration the client runs under.                *)
(***************************************************************************)
Config(n, d, f, nat) ==
    [max_retries |-> n, retry_delay |-> d, default_output_format |-> f,
     include_nationality |-> nat, filter_first_team_only |-> nat]

\* the local variables of a call before it has set any
NoWork ==
    [valid |-> {}, players |-> <<>>, page |-> 0, pages |-> <<>>, seen |-> <<>>,
     names |-> <<>>, stats |-> <<>>, idx |-> 0, data |-> <<>>, failed |-> <<>>,
     got |-> <<>>, found |-> <<>>]

(***************************************************************************)
(* config.py: class APIConfig.  Python dicts are objects: a dict that is   *)
(* the value of a key of two dicts is one object, and an assignment to it  *)
(* shows under both.  heap maps the address of every dict to its items; a  *)
(* value is an integer, a string, or the address of a dict.                *)
(***************************************************************************)
Num(n) == [int |-> n]
Text(t) == [str |-> t]
Ref(a) == [ref |-> a]
IsRef(v) == DOMAIN v = {"ref"}
\* a YAML mapping as value of a key
Map(m) == [map |-> m]
IsMap(v) == DOMAIN v = {"map"}

\* the addresses of DEFAULT_CONFIG, of DEFAULT_CONFIG['api'] and of
\* DEFAULT_CONFIG['pagination']
ClassTop == "DEFAULT_CONFIG"
ApiDict == "DEFAULT_CONFIG.api"
PaginationDict == "DEFAULT_CONFIG.pagination"
\* self.config of the k-th configuration constructed
TopOf(k) == ToString(k)

\* DEFAULT_CONFIG (config.py:22-44), its sections api and pagination
ClassDicts ==
    (ClassTop :> [api |-> Ref(ApiDict), pagination |-> Ref(PaginationDict)])
    @@ (ApiDict :> [root_url |-> Text("https://footballapi.pulselive.com/football/"),
                    timeout |-> Num(DefaultTimeout),
                    max_retries |-> Num(DefaultMaxRetries),
                    retry_delay |-> Num(DefaultRetryDelay)])
    @@ (PaginationDict :> [default_page_size |-> Num(DefaultPageSize),
                           max_page_size |-> Num(DefaultMaxPageSize)])

\* d[key] = value
Put(d, key, value) == (key :> value) @@ d

\* dict.copy(): a new dict with the items of d, the values themselves not
\* copied
DictCopy(d) == d

\* _merge_config(base, override) over the keys left, base an address
RECURSIVE MergeKeys(_, _, _, _)
MergeKeys(h, base, override, keys) ==
    IF keys = {} THEN h
    ELSE LET key == CHOOSE k \in keys : TRUE
             value == override[key]
             merged ==
                 IF key \in DOMAIN h[base] /\ IsRef(h[base][key]) /\ IsMap(value)
                 THEN MergeKeys(h, h[base][key].ref, value.map, DOMAIN value.map)
                 ELSE [h EXCEPT ![base] = Put(h[base], key, value)]
         IN MergeKeys(merged, base, override, keys \ {key})

_merge_config(h, base, override) == MergeKeys(h, base, override, DOMAIN override)

\* The config files of the model: none given, a path that does not exist, a
\* file yaml cannot load, an empty file, and two files with settings.
NoFile == [given |-> FALSE, exists |-> FALSE, loads |-> FALSE, content |-> <<>>]
File(content) == [given |-> TRUE, exists |-> TRUE, loads |-> TRUE, content |-> content]
ConfigFiles ==
    { NoFile,
      [given |-> TRUE, exists |-> FALSE, loads |-> FALSE, content |-> <<>>],
      [given |-> TRUE, exists |-> TRUE, loads |-> FALSE, content |-> <<>>],
      File(<<>>),
      File([api |-> Map([timeout |-> Num(10)])]),
      File([api |-> Map([max_retries |-> Num(5)]),
            pagination |-> Map([default_page_size |-> Num(50)])]) }

\* _load_config_file (config.py:62-71): a file that does not load leaves a
\* warning only, an empty one gives None
_load_config_file(h, top, config_file) ==
    IF ~config_file.loads \/ config_file.content = <<>> THEN h
    ELSE _merge_config(h, top, config_file.content)

\* env_mappings, in the order of the dict (config.py:75-82)
env_mappings ==
    << <<"EPLAPI_ROOT_URL", "api", "root_url">>,
       <<"EPLAPI_TIMEOUT", "api", "timeout">>,
       <<"EPLAPI_MAX_RETRIES", "api", "max_retries">>,
       <<"EPLAPI_RETRY_DELAY", "api", "retry_delay">>,
       <<"EPLAPI_DEFAULT_PAGE_SIZE", "pagination", "default_page_size">>,
       <<"EPLAPI_MAX_PAGE_SIZE", "pagination", "max_page_size">> >>
IntKeys == {"timeout", "max_retries", "retry_delay", "default_page_size", "max_page_size"}

\* int(value) for the strings of the model: [ok, n]
EnvInt(text) ==
    CASE text = "5" -> [ok |-> TRUE, n |-> 5]
      [] text = "-1" -> [ok |-> TRUE, n |-> 0 - 1]
      [] text = " 7 " -> [ok |-> TRUE, n |-> 7]
      [] text = "abc" -> [ok |-> FALSE, n |-> 0]
      [] text = "2.5" -> [ok |-> FALSE, n |-> 0]
      [] text = "" -> [ok |-> FALSE, n |-> 0]

\* the value an environment string gives a key, or  continue  (config.py:88-92)
EnvValue(key, text) ==
    IF key \notin IntKeys THEN [skip |-> FALSE, value |-> Text(text)]
    ELSE IF EnvInt(text).ok THEN [skip |-> FALSE, value |-> Num(EnvInt(text).n)]
    ELSE [skip |-> TRUE, value |-> Text(text)]

\* The environments of the model: the variables that are set, as strings.
NoEnv == <<>>
Environments ==
    { NoEnv,
      [EPLAPI_TIMEOUT |-> "5"],
      [EPLAPI_TIMEOUT |-> "abc"],
      [EPLAPI_MAX_RETRIES |-> "-1", EPLAPI_DEFAULT_PAGE_SIZE |-> " 7 "],
      [EPLAPI_MAX_RETRIES |-> "2.5", EPLAPI_RETRY_DELAY |-> ""] }

\* _load_environment_variables (config.py:84-96), from the i-th mapping on
RECURSIVE LoadEnv(_, _, _, _)
LoadEnv(h, top, env, i) ==
    IF i > Len(env_mappings) THEN h
    ELSE LET env_var == env_mappings[i][1]
             section == env_mappings[i][2]
             key == env_mappings[i][3]
         IN IF env_var \notin DOMAIN env THEN LoadEnv(h, top, env, i + 1)
            ELSE LET v == EnvValue(key, env[env_var])
                     \* if section not in self.config: self.config[section] = {}
                     hs == IF section \in DOMAIN h[top] THEN h
                           ELSE [h EXCEPT ![top] = Put(h[top], section, Map(<<>>))]
                     held == hs[top][section]
                 IN IF v.skip THEN LoadEnv(h, top, env, i + 1)
                    ELSE IF IsRef(held)
                    THEN LoadEnv([hs EXCEPT ![held.ref] = Put(hs[held.ref], key, v.value)],
                                 top, env, i + 1)
                    ELSE LoadEnv([hs EXCEPT ![top] =
                                      Put(hs[top], section, Map(Put(held.map, key, v.value)))],
                                 top, env, i + 1)

_load_environment_variables(h, top, env) == LoadEnv(h, top, env, 1)

\* APIConfig.__init__ (config.py:46-60): the heap after the construction of
\* the config whose self.config is at the address top
APIConfig(h, top, config_file, env) ==
    LET copied == (top :> DictCopy(h[ClassTop])) @@ h
        loaded == IF config_file.given /\ config_file.exists
                  THEN _load_config_file(copied, top, config_file)
                  ELSE copied
    IN _load_environment_variables(loaded, top, env)

\* APIConfig.get(section, key) of the config at top, None when absent
ConfigGet(h, top, section, key) ==
    IF section \notin DOMAIN h[top] THEN None
    ELSE LET held == h[top][section]
             d == IF IsRef(held) THEN h[held.ref] ELSE IF IsMap(held) THEN held.map ELSE <<>>
         IN IF key \in DOMAIN d THEN d[key] ELSE None

Quiet ==
    /\ call = NoCall
    /\ pc = "idle"
    /\ stage = ""
    /\ attempt = 0
    /\ trace = <<>>
    /\ sleeps = <<>>
    /\ mk = Pending
    /\ out = Pending
    /\ mkCalls = 0
    /\ httpCalls = 0
    /\ work = NoWork
    /\ made = <<>>
    /\ heap = ClassDicts
    /\ configs = <<>>

\* The projections run under few retries and under two configurations of the
\* output settings (the first-team filter goes with the nationality flag); an
\* explicit output argument reaches the other pairings.
Init ==
    /\ cfg \in {Config(n, DefaultRetryDelay, "json", TRUE) : n \in (0 - 1)..MaxRetriesProj}
              \cup {Config(n, DefaultRetryDelay, "df", FALSE) : n \in (0 - 1)..MaxRetriesProj}
    /\ Quiet

InitRequest ==
    /\ cfg \in {Config(n, d, "json", TRUE) :
                    n \in ((0 - 1)..MaxRetriesBound) \cup {DefaultMaxRetries},
                    d \in {DefaultRetryDelay, 2}}
    /\ Quiet

(***************************************************************************)
(* _make_request as a process: called, one loop iteration per step.        *)
(***************************************************************************)
\* self._make_request(endpoint, params) is entered
Invoke(st) ==
    /\ pc' = "http"
    /\ stage' = st
    /\ attempt' = 0
    /\ trace' = <<>>
    /\ sleeps' = <<>>
    /\ mk' = Pending
    /\ mkCalls' = mkCalls + 1

\* the public call ends with outcome r
Conclude(r) ==
    /\ out' = r
    /\ pc' = "done"
    /\ UNCHANGED <<cfg, made, heap, configs, call, stage, attempt, trace, sleeps, mk, mkCalls, httpCalls>>

Finish(r) == Conclude(r) /\ UNCHANGED work

\* what the attempt saw: the outcome with the decoded body
Observed(o, doc) ==
    [kind |-> o.kind, status |-> o.status, hdr |-> o.hdr, json |-> o.json, doc |-> doc]

\* one iteration of the loop: requests.get, then the branch of its outcome
HttpAttempt ==
    /\ pc = "http"
    /\ InRange(attempt, cfg)
    /\ \E o \in Outcomes :
         \E doc \in (IF o.status = 200 /\ o.json THEN Docs(stage) ELSE {None}) :
            LET step == LoopBody(o, doc, attempt, cfg)
            IN /\ trace' = Append(trace, Observed(o, doc))
               /\ sleeps' = sleeps \o [i \in 1..Len(step.sleep) |->
                                         [after |-> attempt, secs |-> step.sleep[i]]]
               /\ httpCalls' = httpCalls + 1
               /\ IF step.mk.kind = "none"
                  THEN attempt' = attempt + 1 /\ pc' = "http" /\ mk' = mk
                  ELSE attempt' = attempt /\ pc' = "ret" /\ mk' = step.mk
    /\ UNCHANGED <<cfg, made, heap, configs, call, stage, out, mkCalls, work>>

\* range(config.max_retries + 1) is exhausted: the function falls off its end
LoopExhausted ==
    /\ pc = "http"
    /\ ~InRange(attempt, cfg)
    /\ mk' = Return(None)
    /\ pc' = "ret"
    /\ UNCHANGED <<cfg, made, heap, configs, call, stage, attempt, trace, sleeps, out, mkCalls, httpCalls, work>>

\* api._make_request("/test")
CallMakeRequest ==
    /\ pc = "idle"
    /\ call' = Call("_make_request", NoArg, NoArg, NoArg)
    /\ Invoke("test")
    /\ UNCHANGED <<cfg, made, heap, configs, out, httpCalls, work>>

ReturnMakeRequest ==
    /\ pc = "ret"
    /\ call.name = "_make_request"
    /\ Finish(mk)

\* the next call starts from a client at rest
Reset ==
    /\ pc = "done"
    /\ call' = NoCall
    /\ pc' = "idle"
    /\ stage' = ""
    /\ attempt' = 0
    /\ trace' = <<>>
    /\ sleeps' = <<>>
    /\ mk' = Pending
    /\ out' = Pending
    /\ mkCalls' = 0
    /\ httpCalls' = 0
    /\ work' = NoWork
    /\ UNCHANGED <<cfg, made, heap, configs>>

NextRequest == CallMakeRequest \/ HttpAttempt \/ LoopExhausted \/ ReturnMakeRequest \/ Reset

SpecRequest == InitRequest /\ [][NextRequest]_vars

(***************************************************************************)
(* The public calls as processes: validation, the requests, the            *)
(* projection of what _make_request gave.                                  *)
(***************************************************************************)
CallGetSeasonId(season_label) ==
    /\ pc = "idle"
    /\ call' = Call("get_season_id", season_label, NoArg, NoArg)
    /\ Invoke("seasons")
    /\ UNCHANGED <<cfg, made, heap, configs, out, httpCalls, work>>

ReturnGetSeasonId ==
    /\ pc = "ret"
    /\ call.name = "get_season_id"
    /\ Finish(get_season_id(call.arg, mk))

CallGetClubIds(season_id, output) ==
    /\ pc = "idle"
    /\ call' = Call("get_club_ids", NoArg, Arg(season_id), output)
    /\ Invoke("clubs")
    /\ UNCHANGED <<cfg, made, heap, configs, out, httpCalls, work>>

ReturnGetClubIds ==
    /\ pc = "ret"
    /\ call.name = "get_club_ids"
    /\ Finish(get_club_ids(call.season.text, OutputOf(call.output, cfg), mk))

\* season_id is None: self.get_season_id() is called first
CallGetClubTables(season, output) ==
    /\ pc = "idle"
    /\ call' = Call("get_club_tables", NoArg, season, output)
    /\ IF season.given THEN Invoke("standings") ELSE Invoke("seasons")
    /\ UNCHANGED <<cfg, made, heap, configs, out, httpCalls, work>>

\* get_season_id() has its answer: its failure is the call's, its season is
\* the one the standings are asked for
TablesSeasonResolved ==
    /\ pc = "ret"
    /\ call.name = "get_club_tables"
    /\ stage = "seasons"
    /\ LET r == get_season_id(NoArg, mk)
       IN IF r.kind = "raise"
          THEN Finish(r)
          ELSE /\ call' = [call EXCEPT !.season = Arg(r.val)]
               /\ Invoke("standings")
               /\ UNCHANGED <<cfg, made, heap, configs, out, httpCalls, work>>

ReturnGetClubTables ==
    /\ pc = "ret"
    /\ call.name = "get_club_tables"
    /\ stage = "standings"
    /\ Finish(get_club_tables(call.season.text, OutputOf(call.output, cfg), mk))

\* the stat key is validated before the request is built
CallGetClubRankings(stat_type, season_id, output) ==
    /\ pc = "idle"
    /\ call' = Call("get_club_rankings", Arg(stat_type), Arg(season_id), output)
    /\ IF ~validate_stat_type(stat_type, "club")
       THEN /\ out' = Raise("ValueError", MsgInvalidStat(stat_type))
            /\ pc' = "done"
            /\ UNCHANGED <<cfg, made, heap, configs, stage, attempt, trace, sleeps, mk, mkCalls, httpCalls, work>>
       ELSE /\ Invoke("club_rankings")
            /\ UNCHANGED <<cfg, made, heap, configs, out, httpCalls, work>>

ReturnGetClubRankings ==
    /\ pc = "ret"
    /\ call.name = "get_club_rankings"
    /\ Finish(get_club_rankings(call.arg.text, call.season.text,
                                OutputOf(call.output, cfg), mk))

CallGetPlayerRankings(stat_type, season_id, output) ==
    /\ pc = "idle"
    /\ call' = Call("get_player_rankings", Arg(stat_type), Arg(season_id), output)
    /\ IF ~validate_stat_type(stat_type, "player")
       THEN /\ out' = Raise("ValueError", MsgInvalidStat(stat_type))
            /\ pc' = "done"
            /\ UNCHANGED <<cfg, made, heap, configs, stage, attempt, trace, sleeps, mk, mkCalls, httpCalls, work>>
       ELSE /\ Invoke("player_rankings")
            /\ UNCHANGED <<cfg, made, heap, configs, out, httpCalls, work>>

ReturnGetPlayerRankings ==
    /\ pc = "ret"
    /\ call.name = "get_player_rankings"
    /\ Finish(get_player_rankings(call.arg.text, call.season.text,
                                  OutputOf(call.output, cfg), mk, cfg))

(***************************************************************************)
(* get_player_list as a process: the club request, one request per page,   *)
(* the club-name lookup of the error text.  search_player_by_name runs it  *)
(* with output "json" and no club.                                         *)
(***************************************************************************)
PlayerListCallers ==
    {"get_player_list", "search_player_by_name", "get_player_id", "get_player_comparison"}
\* the club_id and the output get_player_list runs with
ClubIdArg == IF call.name = "get_player_list" THEN call.arg ELSE NoArg
ListOutput == IF call.name = "get_player_list" THEN OutputOf(call.output, cfg) ELSE "json"

CallGetPlayerList(season_id, output, club_id) ==
    /\ pc = "idle"
    /\ call' = Call("get_player_list", club_id, Arg(season_id), output)
    /\ Invoke("clubs")
    /\ UNCHANGED <<cfg, made, heap, configs, out, httpCalls, work>>

CallSearchPlayerByName(name, season_id, output) ==
    /\ pc = "idle"
    /\ call' = Call("search_player_by_name", Arg(name), Arg(season_id), output)
    /\ Invoke("clubs")
    /\ UNCHANGED <<cfg, made, heap, configs, out, httpCalls, work>>

CallGetPlayerId(name, season_id) ==
    /\ pc = "idle"
    /\ call' = Call("get_player_id", Arg(name), Arg(season_id), NoArg)
    /\ Invoke("clubs")
    /\ UNCHANGED <<cfg, made, heap, configs, out, httpCalls, work>>

\* get_player_list has ended with r: what its caller makes of it.  The
\* comparison wraps its failure (api.py:674-675) and else starts on the names.
EndPlayerList(r) ==
    CASE call.name = "get_player_list" -> Conclude(r)
      [] call.name = "search_player_by_name" ->
            Conclude(search_player_by_name(call.arg.text, call.season.text,
                                           OutputOf(call.output, cfg), r))
      [] call.name = "get_player_id" ->
            Conclude(get_player_id(call.arg.text, call.season.text, r))
      [] call.name = "get_player_comparison" ->
            IF r.kind = "raise"
            THEN Conclude(Raise("ValueError",
                                <<"Failed", "to", "get", "players", "list", ":">> \o r.msg))
            ELSE /\ pc' = "names"
                 /\ UNCHANGED <<cfg, made, heap, configs, call, stage, attempt, trace, sleeps, mk, out,
                                mkCalls, httpCalls>>

\* the club list has arrived (api.py:463-481)
PlayerListClubs ==
    /\ pc = "ret"
    /\ call.name \in PlayerListCallers
    /\ stage = "clubs"
    /\ LET v == ValidTeamIds(call.season.text, ClubIdArg, mk)
       IN IF v.kind = "raise"
          THEN EndPlayerList(PlayerListExcept(v)) /\ UNCHANGED work
          ELSE /\ work' = [work EXCEPT !.valid = v.val.ids, !.pages = <<0>>]
               /\ Invoke("players")
               /\ UNCHANGED <<cfg, made, heap, configs, call, out, httpCalls>>

\* (mutation) the loop ends with the first page, whatever it holds
PlayerListPageOnce ==
    /\ pc = "ret"
    /\ call.name \in PlayerListCallers
    /\ stage = "players"
    /\ LET content == Get(mk.val, "content", <<>>)
           added == AddPage(content, 1, work.players, ClubIdArg, work.valid, cfg)
           players == IF added.kind = "raise" THEN work.players ELSE added.val.players
       IN /\ work' = [work EXCEPT !.seen = Append(work.seen, content), !.players = players]
          /\ EndPlayerList(_format_output(players, ListOutput))

\* a page has arrived (api.py:490-538): one pass of  while True ; work.pages
\* and work.seen keep the page numbers asked for and the contents received
PlayerListPage ==
    /\ pc = "ret"
    /\ call.name \in PlayerListCallers
    /\ stage = "players"
    /\ IF mk.kind = "raise" THEN EndPlayerList(PlayerListExcept(mk)) /\ UNCHANGED work
       ELSE IF mk.val = None
            THEN EndPlayerList(Raise("AttributeError", MsgNoneNoGet)) /\ UNCHANGED work
       ELSE LET content == Get(mk.val, "content", <<>>)
                added == AddPage(content, 1, work.players, ClubIdArg, work.valid, cfg)
                received == [work EXCEPT !.seen = Append(work.seen, content)]
            IN IF content = <<>>
               THEN /\ work' = received
                    /\ IF work.players # <<>>
                       THEN EndPlayerList(PlayerListExcept(
                                _format_output(work.players, ListOutput)))
                       ELSE IF ClubIdArg.given
                            THEN /\ Invoke("club_info")
                                 /\ UNCHANGED <<cfg, made, heap, configs, call, out, httpCalls>>
                            ELSE EndPlayerList(PlayerListExcept(
                                     Raise("ValueError", MsgNoPlayersSeason(call.season.text))))
               ELSE IF added.kind = "raise"
                    THEN EndPlayerList(PlayerListExcept(added)) /\ work' = received
               ELSE /\ work' = [received EXCEPT !.players = added.val.players,
                                                !.page = work.page + 1,
                                                !.pages = Append(work.pages, work.page + 1)]
                    /\ Invoke("players")
                    /\ UNCHANGED <<cfg, made, heap, configs, call, out, httpCalls>>

\* get_club_info has answered or failed (api.py:526-534): either way the call
\* fails, naming the club as far as it is known
PlayerListClubInfo ==
    /\ pc = "ret"
    /\ call.name \in PlayerListCallers
    /\ stage = "club_info"
    /\ EndPlayerList(PlayerListExcept(
           Raise("ValueError", MsgNoPlayersClub(ClubNameOf(call.arg.text, mk),
                                                call.arg.text, call.season.text))))
    /\ UNCHANGED work

(***************************************************************************)
(* get_club_stats, and get_player_comparison as a process: the validation, *)
(* the player list, then one pass of  for player_name in player_names  per *)
(* step, with the stats request of the name in between.                    *)
(***************************************************************************)
CallGetClubStats(club_id, season_id, stat_type, output) ==
    /\ pc = "idle"
    /\ call' = Call("get_club_stats", stat_type, Arg(season_id), output)
    /\ Invoke("club_stats")
    /\ UNCHANGED <<cfg, made, heap, configs, out, httpCalls, work>>

ReturnGetClubStats ==
    /\ pc = "ret"
    /\ call.name = "get_club_stats"
    /\ Finish(get_club_stats("1", call.season.text, call.arg,
                             OutputOf(call.output, cfg), mk))

CallGetPlayerComparison(player_names, season_id, stats_to_compare, output) ==
    /\ pc = "idle"
    /\ call' = Call("get_player_comparison", NoArg, Arg(season_id), output)
    /\ work' = [NoWork EXCEPT !.names = player_names, !.stats = StatsOf(stats_to_compare)]
    /\ LET v == CompareValidate(player_names)
       IN IF v.kind = "raise"
          THEN /\ out' = v
               /\ pc' = "done"
               /\ UNCHANGED <<cfg, made, heap, configs, stage, attempt, trace, sleeps, mk, mkCalls, httpCalls>>
          ELSE /\ Invoke("clubs")
               /\ UNCHANGED <<cfg, made, heap, configs, out, httpCalls>>

Comparing(at) == pc = at /\ call.name = "get_player_comparison"
\* the name the loop is at
PlayerName == work.names[work.idx + 1]
PlayerInfo == ResolvePlayer(PlayerName, call.season.text, work.players)

\* the pass of the loop for the next name, up to its request: a name that
\* is not found joins failed_players and the loop goes on; work.found keeps
\* the player_info of each name, or the failure to find one
CompareName ==
    /\ Comparing("names")
    /\ work.idx < Len(work.names)
    /\ IF PlayerInfo.kind = "raise"
       THEN /\ work' = [work EXCEPT !.idx = work.idx + 1,
                                    !.failed = Append(work.failed,
                                                      Failed(PlayerName, PlayerInfo)),
                                    !.got = Append(work.got, PlayerInfo),
                                    !.found = Append(work.found, PlayerInfo)]
            /\ UNCHANGED <<cfg, made, heap, configs, call, pc, stage, attempt, trace, sleeps, mk, out,
                           mkCalls, httpCalls>>
       ELSE /\ work' = [work EXCEPT !.found = Append(work.found, PlayerInfo)]
            /\ Invoke("player_stats")
            /\ UNCHANGED <<cfg, made, heap, configs, call, out, httpCalls>>

\* the stats request of the name has ended: its entry joins players_data,
\* or its failure failed_players (api.py:711-740); work.got keeps what
\* get_player_stats gave for each name
CompareStats ==
    /\ Comparing("ret")
    /\ stage = "player_stats"
    /\ LET got == get_player_stats(PlayerInfo.val.id, call.season.text, mk)
           r == PlayerData(PlayerName, PlayerInfo.val, work.stats, got)
       IN work' = [work EXCEPT
                      !.idx = work.idx + 1,
                      !.data = IF r.kind = "raise" THEN work.data
                               ELSE Append(work.data, r.val),
                      !.failed = IF r.kind = "raise"
                                 THEN Append(work.failed, Failed(PlayerName, r))
                                 ELSE work.failed,
                      !.got = Append(work.got, got)]
    /\ pc' = "names"
    /\ UNCHANGED <<cfg, made, heap, configs, call, stage, attempt, trace, sleeps, mk, out, mkCalls, httpCalls>>

\* every name has been tried (api.py:743-795)
CompareFinish ==
    /\ Comparing("names")
    /\ work.idx = Len(work.names)
    /\ Finish(CompareEnd(work.data, work.failed, work.stats, call.season.text,
                         OutputOf(call.output, cfg)))

\* EPLAPI(custom_config): a client is constructed between two calls
Construct(custom_config) ==
    /\ pc = "idle"
    /\ Len(made) < MaxClients
    /\ LET r == EPLAPI(custom_config, cfg)
       IN /\ cfg' = r.cfg
          /\ made' = Append(made, [custom_config |-> custom_config, out |-> r.out])
    /\ UNCHANGED <<heap, configs, call, pc, stage, attempt, trace, sleeps, mk, out, mkCalls,
                   httpCalls, work>>

\* APIConfig(config_file) under the environment env: set_config_file, or
\* the import of the module with no file (config.py:158, 169)
ConstructAPIConfig(config_file, env) ==
    /\ pc = "idle"
    /\ Len(configs) < MaxConfigs
    /\ heap' = APIConfig(heap, TopOf(Len(configs) + 1), config_file, env)
    /\ configs' = Append(configs, [top |-> TopOf(Len(configs) + 1),
                                   config_file |-> config_file, env |-> env])
    /\ UNCHANGED <<cfg, made, call, pc, stage, attempt, trace, sleeps, mk, out, mkCalls,
                   httpCalls, work>>

Next ==
    \/ \E l \in LabelArgs : CallGetSeasonId(l)
    \/ ReturnGetSeasonId
    \/ \E s \in SeasonArgs, f \in OutputArgs : CallGetClubIds(s, f)
    \/ ReturnGetClubIds
    \/ \E s \in {NoArg} \cup {Arg(x) : x \in SeasonArgs}, f \in OutputArgs :
          CallGetClubTables(s, f)
    \/ TablesSeasonResolved
    \/ ReturnGetClubTables
    \/ \E t \in StatArgs, s \in SeasonArgs, f \in OutputArgs : CallGetClubRankings(t, s, f)
    \/ ReturnGetClubRankings
    \/ \E t \in StatArgs, s \in SeasonArgs, f \in OutputArgs : CallGetPlayerRankings(t, s, f)
    \/ ReturnGetPlayerRankings
    \/ HttpAttempt
    \/ LoopExhausted
    \/ Reset

Spec == Init /\ [][Next]_vars

\* The calls that make several requests each, under the configurations that
\* make one attempt per request, or none (the retry loop has its own
\* specification).
InitPlayers ==
    /\ cfg \in {Config(n, DefaultRetryDelay, "json", TRUE) : n \in {0 - 1, 0}}
              \cup {Config(n, DefaultRetryDelay, "df", FALSE) : n \in {0 - 1, 0}}
    /\ Quiet

NextPlayers ==
    \/ \E s \in SeasonArgs, a \in PlayerListArgs : CallGetPlayerList(s, a.output, a.club_id)
    \/ \E s \in SeasonArgs, a \in SearchArgs : CallSearchPlayerByName(a.name, s, a.output)
    \/ \E s \in SeasonArgs, n \in QueryArgs : CallGetPlayerId(n, s)
    \/ PlayerListClubs
    \/ PlayerListPage
    \/ PlayerListClubInfo
    \/ HttpAttempt
    \/ LoopExhausted
    \/ Reset

SpecPlayers == InitPlayers /\ [][NextPlayers]_vars

\* get_player_list alone, as a program that runs on: a call that has started
\* takes its next step, and every request attempt ends, requests.get being
\* called with a timeout (api.py:30-35).  Nothing obliges a caller to start
\* a call.
NextPaging ==
    \/ \E s \in SeasonArgs, a \in PlayerListArgs : CallGetPlayerList(s, a.output, a.club_id)
    \/ PlayerListClubs
    \/ PlayerListPage
    \/ PlayerListClubInfo
    \/ HttpAttempt
    \/ LoopExhausted
    \/ Reset

Running ==
    PlayerListClubs \/ PlayerListPage \/ PlayerListClubInfo \/ HttpAttempt \/ LoopExhausted

SpecPaging == InitPlayers /\ [][NextPaging]_vars /\ WF_vars(Running)

\* The calls that shape their result themselves, next to a call that leaves
\* it to _format_output.
\* They run under the configurations that make one attempt per request, or
\* none (the retry loop has its own specification), and under the two
\* configurations of the output settings.
InitCompare ==
    /\ cfg \in {Config(n, DefaultRetryDelay, "json", TRUE) : n \in {0 - 1, 0}}
              \cup {Config(n, DefaultRetryDelay, "df", FALSE) : n \in {0 - 1, 0}}
    /\ Quiet

NextCompare ==
    \/ \E s \in SeasonArgs, a \in CompareArgs :
          CallGetPlayerComparison(a.names, s, a.stats, a.output)
    \/ CompareName
    \/ CompareStats
    \/ CompareFinish
    \/ \E s \in SeasonArgs, a \in ClubStatsArgs : CallGetClubStats("1", s, a.stat_type, a.output)
    \/ ReturnGetClubStats
    \/ \E s \in SeasonArgs, f \in OutputArgs : CallGetClubIds(s, f)
    \/ ReturnGetClubIds
    \/ PlayerListClubs
    \/ PlayerListPage
    \/ HttpAttempt
    \/ LoopExhausted
    \/ Reset

SpecCompare == InitCompare /\ [][NextCompare]_vars

\* Clients are constructed between the calls of one process.
NextClients ==
    \/ \E c \in ConfigArgs : Construct(c)
    \/ \E s \in SeasonArgs, f \in OutputArgs : CallGetClubIds(s, f)
    \/ ReturnGetClubIds
    \/ HttpAttempt
    \/ LoopExhausted
    \/ Reset

SpecClients == InitCompare /\ [][NextClients]_vars

\* Configurations are constructed one after the other in one process, each
\* from a config file and under an environment: first by the import of
\* config.py, then by set_config_file or by a caller.
InitConfig ==
    /\ cfg = Config(DefaultMaxRetries, DefaultRetryDelay, "json", TRUE)
    /\ Quiet

NextConfig == \E f \in ConfigFiles, e \in Environments : ConstructAPIConfig(f, e)

SpecConfig == InitConfig /\ [][NextConfig]_vars

(***************************************************************************)
(* Claims on the request executor, checked under SpecRequest.              *)
(***************************************************************************)
Ended == pc \in {"ret", "done"}
Is429(o) == o.kind = "response" /\ o.status = 429
IsTransient(o) == o.kind \in {"Timeout", "ConnectionError"}
\* the sleeps taken after the attempt of index a (counted from 0)
SleepsAfter(a) == {j \in 1..Len(sleeps) : sleeps[j].after = a}

\* C1: with a retry maximum N >= 0 a call issues at most N + 1 requests, every
\* request but the last was answered by a timeout, a connection error or a
\* 429, the loop never runs out of attempts while the call is open, and a
\* call that has ended has returned a decoded document or raised a failure.
C1_BoundedRetries ==
    cfg.max_retries >= 0 =>
        /\ Len(trace) <= cfg.max_retries + 1
        /\ httpCalls = Len(trace)
        /\ \A i \in 1..(Len(trace) - 1) : Is429(trace[i]) \/ IsTransient(trace[i])
        /\ pc = "http" => (mk.kind = "none" /\ attempt = Len(trace) /\ InRange(attempt, cfg))
        /\ Ended => \/ mk.kind = "raise" /\ mk.msg # <<>>
                    \/ mk.kind = "return" /\ mk.val \in Docs(stage)

C1_Witness ==
    /\ pc = "ret"
    /\ cfg.max_retries = DefaultMaxRetries
    /\ Len(trace) = DefaultMaxRetries + 1
    /\ mk.kind = "return"

\* C2 as stated: a call that received a 429 with Retry-After: 60 has taken
\* exactly one delay of 60 seconds when it ends, and ends by returning or by
\* failing with RateLimited.
C2_Original ==
    (Ended /\ cfg.max_retries = DefaultMaxRetries
           /\ \E i \in 1..Len(trace) : Is429(trace[i]) /\ trace[i].hdr = Header("60")) =>
        /\ Cardinality({j \in 1..Len(sleeps) : sleeps[j].secs = 60}) = 1
        /\ mk.kind = "return" \/ (mk.kind = "raise" /\ IsRateLimited(mk.msg))

\* C2 as amended: every 429 with Retry-After: 60 received before the last
\* permitted attempt is followed by exactly one delay, of 60 seconds; one
\* received on the last permitted attempt is followed by no delay and fails
\* the call with RateLimited.
C2_DelayPer429 ==
    \A i \in 1..Len(trace) :
        (Is429(trace[i]) /\ trace[i].hdr = Header("60")) =>
            IF i - 1 < cfg.max_retries
            THEN /\ Cardinality(SleepsAfter(i - 1)) = 1
                 /\ \A j \in SleepsAfter(i - 1) : sleeps[j].secs = 60
                 /\ (i = Len(trace)) => pc = "http"
            ELSE /\ SleepsAfter(i - 1) = {}
                 /\ i = Len(trace)
                 /\ mk.kind = "raise" /\ IsRateLimited(mk.msg)

C2_Witness ==
    /\ pc = "ret"
    /\ cfg.max_retries = DefaultMaxRetries
    /\ Len(trace) = DefaultMaxRetries + 1
    /\ \A i \in 1..Len(trace) : Is429(trace[i]) /\ trace[i].hdr = Header("60")
    /\ Len(sleeps) = DefaultMaxRetries
    /\ IsRateLimited(mk.msg)

\* C3: every delay follows an attempt that may still be retried and that a
\* 429, a timeout or a connection error ended; after a 429 it lasts the
\* Retry-After of that response (60 without the header), after a timeout or
\* a connection error the configured retry_delay; an attempt is followed by
\* at most one delay.
C3_DelayLengths ==
    \A j \in 1..Len(sleeps) :
        LET a == sleeps[j].after
            o == trace[a + 1]
        IN /\ a + 1 <= Len(trace)
           /\ a < cfg.max_retries
           /\ Cardinality(SleepsAfter(a)) = 1
           /\ Is429(o) \/ IsTransient(o)
           /\ IsTransient(o) => sleeps[j].secs = cfg.retry_delay
           /\ (Is429(o) /\ ~o.hdr.present) => sleeps[j].secs = 60
           /\ (Is429(o) /\ o.hdr = Header("60")) => sleeps[j].secs = 60
           /\ (Is429(o) /\ o.hdr = Header("7")) => sleeps[j].secs = 7
           /\ (Is429(o) /\ o.hdr.present) => o.hdr.text \in {"60", "7"}

C3_Witness ==
    /\ pc = "ret"
    /\ mk.kind = "return"
    /\ Len(sleeps) = 3
    /\ sleeps[1].secs = 7
    /\ sleeps[2].secs = cfg.retry_delay
    /\ sleeps[3].secs = 60 /\ ~trace[3].hdr.present

\* C4 as stated: a call whose last permitted attempt was answered by a 429
\* fails with RateLimited, one whose last permitted attempt ended in a
\* timeout or a connection error fails with NetworkFailure, and neither
\* returns a document.
C4_ExhaustedKind ==
    (Ended /\ cfg.max_retries >= 0 /\ Len(trace) = cfg.max_retries + 1) =>
        LET o == trace[Len(trace)]
        IN /\ Is429(o) => (mk.kind = "raise" /\ IsRateLimited(mk.msg))
           /\ IsTransient(o) => (mk.kind = "raise" /\ IsNetworkFailure(mk.msg))

\* C5: a response whose status is not 429 is the last attempt of its call
\* and is followed by no delay; 200 with a JSON body returns the decoded
\* body, 200 with any other body fails with MalformedResponse, every other
\* status fails with UpstreamError naming the status code.
C5_FinalResponses ==
    \A i \in 1..Len(trace) :
        LET o == trace[i]
        IN (o.kind = "response" /\ o.status # 429) =>
              /\ i = Len(trace)
              /\ Ended
              /\ SleepsAfter(i - 1) = {}
              /\ (o.status = 200 /\ o.json) => (mk.kind = "return" /\ mk.val = o.doc)
              /\ (o.status = 200 /\ ~o.json) =>
                    (mk.kind = "raise" /\ IsMalformedResponse(mk.msg))
              /\ (o.status # 200) =>
                    /\ mk.kind = "raise"
                    /\ IsUpstreamError(mk.msg)
                    /\ mk.msg[Len(mk.msg)] = ToString(o.status)

C5_Witness ==
    /\ pc = "ret"
    /\ Len(trace) = 2
    /\ Is429(trace[1])
    /\ trace[2].kind = "response" /\ trace[2].status = 500
    /\ IsUpstreamError(mk.msg)

\* C29 as stated: a call whose attempts were exhausted by a mix of 429
\* responses and timeouts or connection errors fails with the kind of its
\* last attempt alone: RateLimited after a 429, NetworkFailure after a
\* timeout or a connection error.
C29_LastAttemptKind ==
    (/\ Ended
     /\ cfg.max_retries >= 0
     /\ Len(trace) = cfg.max_retries + 1
     /\ \A i \in 1..Len(trace) : Is429(trace[i]) \/ IsTransient(trace[i])
     /\ \E i \in 1..Len(trace) : Is429(trace[i])
     /\ \E i \in 1..Len(trace) : IsTransient(trace[i])) =>
        /\ httpCalls = attempt + 1
        /\ mk.kind = "raise"
        /\ Is429(trace[Len(trace)]) => IsRateLimited(mk.msg)
        /\ IsTransient(trace[Len(trace)]) => IsNetworkFailure(mk.msg)

\* C30 as stated: for every retry maximum, 0 and negative values included,
\* a call that has ended has returned a decoded document or raised a
\* failure, and has never returned None.
C30_AlwaysAnOutcome ==
    Ended => \/ mk.kind = "raise" /\ mk.msg # <<>>
             \/ mk.kind = "return" /\ mk.val # None

(***************************************************************************)
(* Claims on the projections, checked under Spec.                          *)
(***************************************************************************)
Done(name) == pc = "done" /\ call.name = name
\* _make_request gave the call a decoded document
GotDoc == mk.kind = "return" /\ mk.val # None
ValidOutput == OutputOf(call.output, cfg) \in {"json", "df"}

\* C6: a ranking call whose stat key is not in the catalog of its kind has
\* failed with InvalidArgument ('Invalid statistic type') and has made no
\* request, at whatever point it is looked at.
C6_InvalidStatNoRequest ==
    /\ (call.name = "get_club_rankings" /\ call.arg.text \notin CLUB_STATS) =>
          /\ pc = "done"
          /\ out.kind = "raise" /\ out.cls = "ValueError"
          /\ Contains(out.msg, <<"Invalid", "statistic", "type">>)
          /\ mkCalls = 0 /\ httpCalls = 0 /\ trace = <<>>
    /\ (call.name = "get_player_rankings" /\ call.arg.text \notin PLAYER_STATS) =>
          /\ pc = "done"
          /\ out.kind = "raise" /\ out.cls = "ValueError"
          /\ Contains(out.msg, <<"Invalid", "statistic", "type">>)
          /\ mkCalls = 0 /\ httpCalls = 0 /\ trace = <<>>

C6_Witness ==
    /\ Done("get_player_rankings")
    /\ call.arg.text = "total_red_card"
    /\ call.arg.text \in CLUB_STATS
    /\ out.kind = "raise"
    /\ httpCalls = 0

\* C7: get_season_id with a label, answered with a season list: when an
\* entry has the label, the call returns the identifier of the first such
\* entry as a decimal string, having called _make_request exactly once; when
\* none has, it fails with NotFound ('Season <label> not found').
C7_SeasonByLabel ==
    (Done("get_season_id") /\ Truthy(call.arg) /\ GotDoc /\ "content" \in DOMAIN mk.val) =>
        LET seasons == mk.val.content
            label == call.arg.text
            hits == {i \in 1..Len(seasons) : seasons[i].label = label}
        IN /\ mkCalls = 1
           /\ hits # {} =>
                 /\ out.kind = "return"
                 /\ \E i \in hits :
                       /\ \A j \in hits : i <= j
                       /\ out.val = ToString(seasons[i].id)
           /\ hits = {} =>
                 /\ out.kind = "raise"
                 /\ IsNotFound(out.msg)
                 /\ Contains(out.msg, <<"Season", label, "not", "found">>)

C7_Witness ==
    /\ Done("get_season_id")
    /\ call.arg = Arg("2024/25")
    /\ GotDoc /\ "content" \in DOMAIN mk.val
    /\ Len(mk.val.content) = 2
    /\ mk.val.content[1] = [id |-> 777, label |-> "2023/24"]
    /\ mk.val.content[2] = [id |-> 719, label |-> "2024/25"]
    /\ out = Return("719")

\* C8 as stated: with no label the call returns the greatest identifier of
\* the list, and with an empty list it fails with NoData ('No seasons
\* available') whether or not a label is given.
C8_Original ==
    (Done("get_season_id") /\ GotDoc /\ "content" \in DOMAIN mk.val) =>
        LET seasons == mk.val.content
        IN /\ (~Truthy(call.arg) /\ seasons # <<>>) =>
                 /\ out.kind = "return"
                 /\ \E i \in 1..Len(seasons) :
                       /\ out.val = ToString(seasons[i].id)
                       /\ \A j \in 1..Len(seasons) : seasons[j].id <= seasons[i].id
           /\ seasons = <<>> =>
                 /\ out.kind = "raise"
                 /\ Contains(out.msg, <<"No", "seasons", "available">>)

\* C8 as amended: with no label the call returns the greatest identifier of
\* the list, whatever its order; with an empty list it fails with NoData
\* ('No seasons available') when no label is given and with NotFound
\* ('Season <label> not found') when one is.
C8_LatestOrNoData ==
    (Done("get_season_id") /\ GotDoc /\ "content" \in DOMAIN mk.val) =>
        LET seasons == mk.val.content
        IN /\ (~Truthy(call.arg) /\ seasons # <<>>) =>
                 /\ out.kind = "return"
                 /\ \E i \in 1..Len(seasons) :
                       /\ out.val = ToString(seasons[i].id)
                       /\ \A j \in 1..Len(seasons) : seasons[j].id <= seasons[i].id
           /\ (~Truthy(call.arg) /\ seasons = <<>>) =>
                 /\ out.kind = "raise"
                 /\ Contains(out.msg, <<"No", "seasons", "available">>)
                 /\ ~IsNotFound(out.msg)
           /\ (Truthy(call.arg) /\ seasons = <<>>) =>
                 /\ out.kind = "raise"
                 /\ Contains(out.msg, <<"Season", call.arg.text, "not", "found">>)
                 /\ ~Contains(out.msg, <<"No", "seasons", "available">>)

C8_Witness ==
    /\ Done("get_season_id")
    /\ call.arg = NoArg
    /\ GotDoc /\ "content" \in DOMAIN mk.val
    /\ Len(mk.val.content) = 2
    /\ mk.val.content[1].id = 719
    /\ mk.val.content[2].id = 777
    /\ out = Return("777")

\* C9: get_club_ids with a valid output format, answered with a club list:
\* the result has one record per entry of team type 'FIRST' and none for
\* another entry, the k-th record being that of the k-th such entry; with no
\* such entry the call fails with NoData ('No clubs found').
C9_FirstTeamsInOrder ==
    (Done("get_club_ids") /\ GotDoc /\ ValidOutput) =>
        LET teams == mk.val.list
            firsts == {i \in 1..Len(teams) :
                          "teamType" \in DOMAIN teams[i] /\ teams[i].teamType = "FIRST"}
            \* the place of entry i among the 'FIRST' entries
            place(i) == Cardinality({j \in firsts : j <= i})
        IN /\ firsts # {} =>
                 /\ out.kind = "return"
                 /\ Len(out.val.rows) = Cardinality(firsts)
                 /\ \A i \in firsts :
                       /\ out.val.rows[place(i)]["Name"] = teams[i].shortName
                       /\ ToString(teams[i].id) \in
                             {out.val.rows[place(i)][k] : k \in DOMAIN out.val.rows[place(i)]}
           /\ firsts = {} =>
                 /\ out.kind = "raise"
                 /\ Contains(out.msg, <<"No", "clubs", "found">>)

C9_Witness ==
    /\ Done("get_club_ids")
    /\ GotDoc /\ ValidOutput
    /\ Len(mk.val.list) = 3
    /\ mk.val.list[1].shortName = "Chelsea"
    /\ mk.val.list[2].shortName = "Arsenal U21"
    /\ mk.val.list[3].shortName = "Arsenal"
    /\ out.kind = "return"
    /\ Len(out.val.rows) = 2
    /\ out.val.rows[2]["Name"] = "Arsenal"

\* the key of a table record that holds the field f of 'overall'
OverallKey(f) ==
    CASE f = "played" -> "Played"
      [] f = "won" -> "Won"
      [] f = "drawn" -> "Drawn"
      [] f = "lost" -> "Lost"
      [] f = "goalsFor" -> "Goals For"
      [] f = "goalsAgainst" -> "Goals Against"
      [] f = "goalsDifference" -> "Goal Difference"
      [] f = "points" -> "Points"

\* C10: get_club_tables with a valid output format, answered with a
\* document: with no table, or no entry in the first table, the call fails
\* with NoData; otherwise its rows are the entries of tables[0].entries in
\* some rearrangement, each row holding its entry's position and every field
\* of its entry's 'overall', and the positions never decrease along the rows.
C10_TableSorted ==
    (Done("get_club_tables") /\ stage = "standings" /\ GotDoc /\ ValidOutput) =>
        LET tables == IF "tables" \in DOMAIN mk.val THEN mk.val.tables ELSE <<>>
            entries == IF tables # <<>> /\ "entries" \in DOMAIN tables[1]
                       THEN tables[1].entries ELSE <<>>
            n == Len(entries)
        IN /\ entries = <<>> =>
                 /\ out.kind = "raise"
                 /\ IsNoData(out.msg)
           /\ entries # <<>> =>
                 /\ out.kind = "return"
                 /\ Len(out.val.rows) = n
                 /\ \A k \in 1..(n - 1) :
                       out.val.rows[k]["Position"] <= out.val.rows[k + 1]["Position"]
                 /\ \E p \in [1..n -> 1..n] :
                       /\ \A a, b \in 1..n : a # b => p[a] # p[b]
                       /\ \A k \in 1..n :
                             LET e == entries[p[k]]
                                 row == out.val.rows[k]
                             IN /\ row["Position"] = e.position
                                /\ "overall" \in DOMAIN e =>
                                      \A f \in DOMAIN e.overall :
                                          row[OverallKey(f)] = e.overall[f]

C10_Witness ==
    /\ Done("get_club_tables")
    /\ stage = "standings"
    /\ GotDoc /\ ValidOutput
    /\ "tables" \in DOMAIN mk.val
    /\ mk.val.tables = <<[entries |-> <<
           [position |-> 2, team |-> [id |-> 4, name |-> "Chelsea"], overall |-> Overall2],
           [position |-> 1, team |-> [id |-> 1, name |-> "Arsenal"], overall |-> Overall1]>>]>>
    /\ out.kind = "return"
    /\ out.val.rows[1]["Position"] = 1
    /\ out.val.rows[1]["Points"] = 25
    /\ out.val.rows[2]["Won"] = 7

\* the field f of the record d, None when d has no such field
Field(d, f) == IF f \in DOMAIN d THEN d[f] ELSE None
\* the items the upstream listed under stats.content
RankedItems ==
    IF "stats" \in DOMAIN mk.val /\ "content" \in DOMAIN mk.val.stats
    THEN mk.val.stats.content ELSE <<>>

\* C11: a ranking call with a valid stat key and a valid output format,
\* answered with a document: with no item under stats.content it fails with
\* NoData ('No ranking data found'); otherwise it returns as many records as
\* there are items, the k-th record holding the rank and the value of the
\* k-th item and, from that item's owner, the club name (club rankings) or
\* the player's display name, the current club's name and, exactly when
\* include_nationality is set, the national team's country (player rankings).
C11_RankingRecords ==
    /\ (Done("get_club_rankings") /\ GotDoc /\ ValidOutput) =>
          IF RankedItems = <<>>
          THEN out.kind = "raise" /\ Contains(out.msg, <<"No", "ranking", "data", "found">>)
          ELSE /\ out.kind = "return"
               /\ Len(out.val.rows) = Len(RankedItems)
               /\ \A k \in 1..Len(RankedItems) :
                     LET item == RankedItems[k]
                         row == out.val.rows[k]
                     IN /\ DOMAIN row = {"Rank", "Club", "Stat"}
                        /\ row["Rank"] = item.rank
                        /\ row["Stat"] = Field(item, "value")
                        /\ "owner" \in DOMAIN item => row["Club"] = item.owner.name
    /\ (Done("get_player_rankings") /\ GotDoc /\ ValidOutput) =>
          IF RankedItems = <<>>
          THEN out.kind = "raise" /\ Contains(out.msg, <<"No", "ranking", "data", "found">>)
          ELSE /\ out.kind = "return"
               /\ Len(out.val.rows) = Len(RankedItems)
               /\ \A k \in 1..Len(RankedItems) :
                     LET item == RankedItems[k]
                         row == out.val.rows[k]
                     IN /\ row["Rank"] = item.rank
                        /\ row["Stat"] = item.value
                        /\ row["Player"] = item.owner.name.display
                        /\ "currentTeam" \in DOMAIN item.owner =>
                              row["Club"] = item.owner.currentTeam.name
                        /\ ("Nationality" \in DOMAIN row) <=> cfg.include_nationality
                        /\ (cfg.include_nationality /\ "nationalTeam" \in DOMAIN item.owner) =>
                              row["Nationality"] = item.owner.nationalTeam.country

C11_Witness ==
    /\ Done("get_player_rankings")
    /\ call.arg.text = "goals"
    /\ cfg.include_nationality
    /\ GotDoc /\ ValidOutput
    /\ Len(RankedItems) = 2
    /\ RankedItems[1].rank = 2 /\ RankedItems[2].rank = 1
    /\ out.kind = "return"
    /\ out.val.rows[1]["Player"] = "Mohamed Salah"
    /\ out.val.rows[2]["Nationality"] = "Norway"

\* C17 as stated: every record get_club_ids returns holds the short name of
\* its club under 'Name' and the club's identifier, as a decimal string,
\* under 'Club ID', which is also the key get_player_list reads the
\* identifiers of the club list under.
C17_ClubIdKey ==
    (Done("get_club_ids") /\ GotDoc /\ out.kind = "return") =>
        /\ \A k \in 1..Len(out.val.rows) :
              LET row == out.val.rows[k]
              IN /\ "Name" \in DOMAIN row
                 /\ "Club ID" \in DOMAIN row
                 /\ \E i \in 1..Len(mk.val.list) :
                       row["Club ID"] = ToString(mk.val.list[i].id)
        /\ TeamIdKey = "Club ID"

(***************************************************************************)
(* Claims on the player calls, checked under SpecPlayers.                  *)
(***************************************************************************)
\* the entries of the pages received so far, in the order received
RECURSIVE Flatten(_)
Flatten(pages) ==
    IF pages = <<>> THEN <<>>
    ELSE Flatten(SubSeq(pages, 1, Len(pages) - 1)) \o pages[Len(pages)]

\* the entry belongs to the club asked for or, without a club filter and
\* with the first-team filter on, to a club of the valid set
KeptEntry(player) ==
    LET hasTeam == "currentTeam" \in DOMAIN player /\ "id" \in DOMAIN player.currentTeam
    IN IF call.arg.given
       THEN hasTeam /\ ToString(player.currentTeam.id) = call.arg.text
       ELSE cfg.filter_first_team_only =>
               (hasTeam /\ ToString(player.currentTeam.id) \in work.valid)

\* C20: get_player_list asks for the pages 0, 1, 2, ... in this order with one
\* _make_request call each; a page is asked for only when every page before
\* it came with entries, so no page follows the first empty one; a call that
\* returns has received an empty page last and returns the kept entries of
\* the pages before it, page by page and within a page in upstream order; a
\* call whose page request failed has failed.
C20_Pagination ==
    (call.name = "get_player_list" /\ stage \in {"players", "club_info"}) =>
        LET n == Len(work.pages)
            seen == work.seen
            all == Flatten(seen)
            kept == {i \in 1..Len(all) : KeptEntry(all[i])}
            place(i) == Cardinality({j \in kept : j <= i})
        IN /\ \A i \in 1..n : work.pages[i] = i - 1
           /\ mkCalls = 1 + n + (IF stage = "club_info" THEN 1 ELSE 0)
           /\ Len(seen) <= n /\ n <= Len(seen) + 1
           /\ \A i \in 1..Len(seen) : seen[i] = <<>> => (i = Len(seen) /\ n = Len(seen))
           /\ (pc = "done" /\ out.kind = "return") =>
                 /\ seen # <<>> /\ seen[Len(seen)] = <<>>
                 /\ Len(out.val.rows) = Cardinality(kept)
                 /\ \A i \in kept :
                       /\ out.val.rows[place(i)]["ID"] = ToString(all[i].id)
                       /\ out.val.rows[place(i)]["Name"] = all[i].name.display
           /\ (pc = "done" /\ stage = "players" /\ mk.kind = "raise") => out.kind = "raise"

C20_Witness ==
    /\ Done("get_player_list")
    /\ ~call.arg.given
    /\ cfg.filter_first_team_only
    /\ work.pages = <<0, 1, 2>>
    /\ work.seen = << <<Palmer, FreeAgent, Salah>>, <<Salah, Haaland>>, <<>> >>
    /\ work.valid = {"1", "4"}
    /\ out.kind = "return"
    /\ Len(out.val.rows) = 3
    /\ out.val.rows[1]["Name"] = "Mohamed Salah"
    /\ out.val.rows[3]["Name"] = "Erling Haaland"

\* the ids of the 'FIRST' clubs of a club list document
FirstIds(doc) ==
    {ToString(doc.list[i].id) :
        i \in {k \in 1..Len(doc.list) :
                  "teamType" \in DOMAIN doc.list[k] /\ doc.list[k].teamType = "FIRST"}}
\* the row of the result was made from an entry received whose current club
\* is in the valid set of the call
FromValidClub(row) ==
    \E page \in 1..Len(work.seen) : \E k \in 1..Len(work.seen[page]) :
        LET e == work.seen[page][k]
        IN /\ "id" \in DOMAIN e /\ ToString(e.id) = row["ID"]
           /\ e.name.display = row["Name"]
           /\ "currentTeam" \in DOMAIN e /\ "id" \in DOMAIN e.currentTeam
           /\ ToString(e.currentTeam.id) \in work.valid
           /\ row["Current Team"] = e.currentTeam.name
InPageLoop == call.name = "get_player_list" /\ stage \in {"players", "club_info"}
\* the step that follows the answer to the club request of get_player_list:
\* the valid set is the set of 'FIRST' ids of the document, or the club id
\* asked for when it is one of them, and the first page is requested; an
\* unknown club id fails with 'not found' and no page is requested
ClubsChecked ==
    (pc = "ret" /\ stage = "clubs" /\ call.name = "get_player_list" /\ GotDoc) =>
        IF FirstIds(mk.val) = {}
        THEN pc' = "done" /\ out'.kind = "raise" /\ mkCalls' = 1
        ELSE IF call.arg.given /\ call.arg.text \notin FirstIds(mk.val)
        THEN pc' = "done" /\ out'.kind = "raise" /\ IsNotFound(out'.msg) /\ mkCalls' = 1
        ELSE /\ stage' = "players" /\ pc' = "http" /\ mkCalls' = 2
             /\ work'.pages = <<0>> /\ work'.seen = <<>>
             /\ work'.valid = IF call.arg.given THEN {call.arg.text} ELSE FirstIds(mk.val)

NoPlayerKept ==
    /\ Done("get_player_list")
    /\ stage \in {"players", "club_info"}
    /\ work.seen # <<>> /\ work.seen[Len(work.seen)] = <<>>
    /\ work.players = <<>>

\* C23: a get_player_list call that kept no player fails with 'No players
\* found'; without a club filter it names the season and makes no further
\* request; with one it has made one request for the club's information
\* after the last page and names the club by the name of the document
\* received (the club id when the document has no name), or by 'Unknown'
\* when that request failed or gave nothing, the failure of the request
\* appearing nowhere in the outcome.
C23_NoPlayersFound ==
    NoPlayerKept =>
        /\ out.kind = "raise"
        /\ out.cls = "ValueError"
        /\ SubSeq(out.msg, 1, 4) = <<"No", "players", "found", "for">>
        /\ IF call.arg.given
           THEN /\ stage = "club_info"
                /\ mkCalls = Len(work.pages) + 2
                /\ out.msg = <<"No", "players", "found", "for", "club",
                               IF mk.kind = "return" /\ mk.val # None
                               THEN (IF "name" \in DOMAIN mk.val THEN mk.val.name
                                     ELSE call.arg.text)
                               ELSE "Unknown",
                               "(ID:", call.arg.text, ")", "in", "season", call.season.text>>
           ELSE /\ stage = "players"
                /\ mkCalls = Len(work.pages) + 1
                /\ out.msg = <<"No", "players", "found", "for", "season", call.season.text>>

\* the lookup of the club's name failed and the call failed with NoData
C23_Witness ==
    /\ NoPlayerKept
    /\ call.arg = Arg("1")
    /\ stage = "club_info"
    /\ mk.kind = "raise"
    /\ Contains(out.msg, <<"No", "players", "found", "for", "club", "Unknown">>)

\* the name search has no match: the NotFound failure of a player name
IsNoMatch(msg) == Contains(msg, <<"No", "players", "found", "matching">>)
\* the player list of the call has been obtained
ListObtained ==
    /\ stage = "players"
    /\ work.seen # <<>> /\ work.seen[Len(work.seen)] = <<>>
    /\ work.players # <<>>
\* the rows of the player list whose display name contains the query, both
\* taken in lower case
Matching ==
    {i \in 1..Len(work.players) :
        Contains(Lower(Spell(work.players[i]["Name"])), Lower(Spell(call.arg.text)))}

\* C24: a search over an obtained player list, under a valid output, returns
\* the rows of the list whose display name contains the query up to case,
\* each once and in the order of the list, and fails with NotFound ('No
\* players found matching') when there is none; get_player_id returns the
\* ID of the first such row and fails with the same NotFound when there is
\* none.
C24_NameSearch ==
    /\ (Done("search_player_by_name") /\ ListObtained /\ ValidOutput) =>
          IF Matching = {}
          THEN out.kind = "raise" /\ IsNoMatch(out.msg)
          ELSE /\ out.kind = "return"
               /\ Len(out.val.rows) = Cardinality(Matching)
               /\ \A i \in Matching :
                     out.val.rows[Cardinality({j \in Matching : j <= i})] = work.players[i]
    /\ (Done("get_player_id") /\ ListObtained) =>
          IF Matching = {}
          THEN out.kind = "raise" /\ IsNoMatch(out.msg)
          ELSE /\ out.kind = "return"
               /\ out.val = [value |-> work.players[Least(Matching)]["ID"]]

\* the query in capitals found the second of the three players of the list
C24_Witness ==
    /\ Done("get_player_id")
    /\ ListObtained
    /\ call.arg.text = "SALAH"
    /\ Len(work.players) = 3
    /\ Matching = {2}
    /\ out = Return([value |-> "5178"])

(***************************************************************************)
(* Claims on the end of the page loop, checked under SpecPaging.           *)
(***************************************************************************)
\* get_player_list has ended after it asked for a page
EndedInLoop == call.name = "get_player_list" /\ pc = "done" /\ stage \in {"players", "club_info"}
\* the last page received had no content
EmptyPageLast == work.seen # <<>> /\ work.seen[Len(work.seen)] = <<>>
\* the page request failed
PageRequestFailed == stage = "players" /\ mk.kind = "raise"
\* the page request gave no document, no request having been sent
NoDocument == stage = "players" /\ mk.kind = "return" /\ mk.val = None
\* the last page received holds an entry that lacks the id or the name
PageUnprocessable ==
    /\ work.seen # <<>>
    /\ \E k \in 1..Len(work.seen[Len(work.seen)]) :
          ~({"id", "name"} \subseteq DOMAIN work.seen[Len(work.seen)][k])
    /\ out.kind = "raise"

Output == OutputOf(call.output, cfg)
\* the comparison got its player list and tried its names
NamesTried ==
    /\ Done("get_player_comparison")
    /\ CompareValidate(work.names).kind # "raise"
    /\ ~Contains(out.msg, <<"Failed", "to", "get", "players", "list">>)

\* what get_player_stats gave for a name is a document with a well-formed
\* stats list (or none)
YieldsData(r) ==
    /\ r.kind = "return"
    /\ r.val # None
    /\ \A i \in 1..Len(Get(r.val, "stats", <<>>)) :
          {"name", "value"} \subseteq DOMAIN r.val.stats[i]
\* the positions of the names that yielded data, and of those that did not
Resolved == {i \in 1..Len(work.got) : YieldsData(work.got[i])}
Unresolved == (1..Len(work.got)) \ Resolved
\* the value the stats document of the name at position i has for a stat
ValueAt(i, stat) ==
    LET items == Get(work.got[i].val, "stats", <<>>)
        named == {k \in 1..Len(items) : items[k].name = stat}
    IN IF named = {} THEN 0 ELSE items[Greatest(named)].value
\* the position among the names of the k-th name that yielded data
RECURSIVE NthOf(_, _)
NthOf(S, k) == IF k = 1 THEN Least(S) ELSE NthOf(S \ {Least(S)}, k - 1)

\* the result holds the values and the summaries the claims C12 describe
HoldsValuesAndSummaries(v) ==
    /\ {"players", "stats_info"} \subseteq DOMAIN v
    /\ Len(v.players) = Cardinality(Resolved)
    /\ \A k \in 1..Len(v.players) :
          /\ v.players[k].key = work.names[NthOf(Resolved, k)]
          /\ \A j \in 1..Len(work.stats) :
                v.players[k].stats[work.stats[j]] = ValueAt(NthOf(Resolved, k), work.stats[j])
    /\ \A j \in 1..Len(work.stats) :
          LET stat == work.stats[j]
              info == v.stats_info[stat]
              total == Sum([k \in 1..Len(v.players) |-> ValueAt(NthOf(Resolved, k), stat)], 1)
          IN /\ \E i \in Resolved : info.min = ValueAt(i, stat)
             /\ \A i \in Resolved : info.min <= ValueAt(i, stat)
             /\ \E i \in Resolved : info.max = ValueAt(i, stat)
             /\ \A i \in Resolved : info.max >= ValueAt(i, stat)
             /\ info.mean.num * Cardinality(Resolved) = total * info.mean.den

\* C12 (amended): a comparison that returns its plain result (the output is
\* not 'df') holds, for each name that yielded data and in the order of the
\* names, the value of every requested stat (0 where the stats of the player
\* lack it), and for every requested stat the least and the greatest of these
\* values and their sum divided by the number of names that yielded data.
C12_ComparisonValues ==
    (NamesTried /\ out.kind = "return" /\ Output # "df") => HoldsValuesAndSummaries(out.val)

\* C12 as stated: whatever the output, the result of a comparison holds the
\* values and the summaries.
C12_Original ==
    (NamesTried /\ out.kind = "return") => HoldsValuesAndSummaries(out.val)

\* a comparison of three names of which the second is unknown and the third
\* is found by a part of the name, with a stat one of the players lacks
C12_Witness ==
    /\ NamesTried /\ out.kind = "return" /\ Output = "json"
    /\ work.names = <<"Erling Haaland", "Harry Kane", "SALAH">>
    /\ Resolved = {1, 3}
    /\ work.got[1].val = StatsFull /\ work.got[3].val = StatsGoalsOnly
    /\ out.val.stats_info["goals"] = [min |-> 12, max |-> 15, mean |-> [num |-> 27, den |-> 2]]
    /\ out.val.stats_info["appearances"] = [min |-> 0, max |-> 10, mean |-> [num |-> 5, den |-> 1]]

\* C15: a comparison given fewer than two names, or a list in which a name
\* occurs twice, has failed with InvalidArgument and has made no request, at
\* whatever point it is looked at.
C15_RejectedBeforeRequest ==
    (call.name = "get_player_comparison"
        /\ (Len(work.names) < 2
            \/ \E i, j \in 1..Len(work.names) : i # j /\ work.names[i] = work.names[j])) =>
        /\ pc = "done"
        /\ out.kind = "raise" /\ out.cls = "ValueError"
        /\ \/ Contains(out.msg, <<"At", "least", "2", "players", "are", "required">>)
           \/ Contains(out.msg, <<"Duplicate", "player", "names">>)
        /\ mkCalls = 0 /\ httpCalls = 0 /\ trace = <<>>

C15_Witness ==
    /\ Done("get_player_comparison")
    /\ work.names = <<"Mohamed Salah", "Mohamed Salah">>
    /\ out.kind = "raise"
    /\ Contains(out.msg, <<"Duplicate", "player", "names">>)

\* why the name at position i did not yield data
ReasonAt(i) ==
    LET r == work.got[i]
    IN IF r.kind = "raise" THEN r.msg
       ELSE IF r.val = None THEN MsgNoneNoGet
       ELSE LET items == r.val.stats
                b == Least({k \in 1..Len(items) : ~({"name", "value"} \subseteq DOMAIN items[k])})
            IN IF "name" \in DOMAIN items[b] THEN <<"value">> ELSE <<"name">>

\* the plain result reports every name that did not yield data, with its reason
ReportsFailed(v) ==
    IF Unresolved = {} THEN "failed_players" \notin DOMAIN v
    ELSE /\ "failed_players" \in DOMAIN v
         /\ Len(v.failed_players) = Cardinality(Unresolved)
         /\ \A k \in 1..Len(v.failed_players) :
               /\ v.failed_players[k].name = work.names[NthOf(Unresolved, k)]
               /\ v.failed_players[k].error = ReasonAt(NthOf(Unresolved, k))

\* every name of the list has been tried, and the call succeeded exactly when
\* at least two names yielded data
TriedAllNames ==
    /\ Len(work.got) = Len(work.names)
    /\ out.kind = "return" <=> Cardinality(Resolved) >= 2
    /\ out.kind = "raise" =>
          /\ out.cls = "ValueError"
          /\ Contains(out.msg, <<"Failed", "to", "get", "data", "for", "enough", "players">>)
          /\ \A i \in Unresolved :
                Contains(out.msg, <<work.names[i], "(">> \o ReasonAt(i) \o <<")">>)

\* C16 (amended): once the comparison has its player list, every name is
\* tried whatever happened to the names before it; the call succeeds exactly
\* when at least two names yielded data, and its plain result (the output is
\* not 'df') then reports every other name with its reason; otherwise it
\* fails with one error that lists every name that failed with its reason.
C16_PartialFailure ==
    NamesTried =>
        /\ TriedAllNames
        /\ (out.kind = "return" /\ Output # "df") => ReportsFailed(out.val)

\* C16 as stated: a comparison that succeeds reports every failed name with
\* its reason, whatever the output.
C16_Original ==
    NamesTried =>
        /\ TriedAllNames
        /\ out.kind = "return" => ReportsFailed(out.val)

\* the first name fails on its stats request, the two after it yield data
C16_Witness ==
    /\ NamesTried /\ out.kind = "return" /\ Output = "json"
    /\ Len(work.names) = 3
    /\ Resolved = {1, 3}
    /\ Len(out.val.failed_players) = 1
    /\ out.val.failed_players[1].name = "Harry Kane"

\* the rows and the fields of a result: of a table its rows and columns, of
\* a plain sequence its records and their keys
RowCount(v) == Len(v.rows)
FieldSet(v) ==
    IF "columns" \in DOMAIN v THEN v.columns
    ELSE UNION {DOMAIN v.rows[i] : i \in 1..Len(v.rows)}
OtherFormat(f) == IF f = "df" THEN "json" ELSE "df"
SameRowsAndFields(v, w) == RowCount(v) = RowCount(w) /\ FieldSet(v) = FieldSet(w)

\* the result the call in progress gives under the other output, on the same
\* upstream responses
OtherResult ==
    CASE call.name = "get_club_ids" ->
            get_club_ids(call.season.text, OtherFormat(Output), mk)
      [] call.name = "get_club_stats" ->
            get_club_stats("1", call.season.text, call.arg, OtherFormat(Output), mk)
      [] call.name = "get_player_comparison" ->
            CompareEnd(work.data, work.failed, work.stats, call.season.text,
                       OtherFormat(Output))
\* the table and the plain result of the call that has returned
Table == IF Output = "df" THEN out.val ELSE OtherResult.val
PlainResult == IF Output = "df" THEN OtherResult.val ELSE out.val
Returned(name) == Done(name) /\ Output \in {"json", "df"} /\ out.kind = "return"

TakesOutput == call.name \in {"get_club_ids", "get_club_stats", "get_player_comparison"}

\* C14 as stated: a call whose output is neither 'json' nor 'df' never
\* returns a result; it has failed.
C14_InvalidOutputFails ==
    (pc = "done" /\ TakesOutput /\ ~is_valid(Output)) => out.kind = "raise"

(***************************************************************************)
(* Claims on the construction of clients, checked under SpecClients.       *)
(***************************************************************************)
\* the configuration holds the items of a mapping
Holds(c, custom_config) ==
    \A i \in 1..Len(custom_config.items) :
        /\ custom_config.items[i].key \in DOMAIN c
        /\ c[custom_config.items[i].key] = custom_config.items[i].value

\* C18 as stated: every construction has succeeded, be it given a mapping
\* or nothing, and the configuration holds the items of the mapping given
\* last.
C18_ConstructionSucceeds ==
    /\ \A i \in 1..Len(made) : made[i].out.kind = "return"
    /\ made # <<>> => Holds(cfg, made[Len(made)].custom_config)

ExactRows(n) == {i \in 1..Len(work.players) : work.players[i]["Name"] = n}
FoldedRows(n) ==
    {i \in 1..Len(work.players) : Lower(Spell(work.players[i]["Name"])) = Lower(Spell(n))}
StrippedRows(n) ==
    {i \in 1..Len(work.players) :
        Lower(NoSpaces(Spell(work.players[i]["Name"]))) = Lower(NoSpaces(Spell(n)))}
SubstringRows(n) ==
    {i \in 1..Len(work.players) :
        Contains(Lower(Spell(work.players[i]["Name"])), Lower(Spell(n)))}
\* the rows the first rule that finds a player finds
RuleRows(n) ==
    IF ExactRows(n) # {} THEN ExactRows(n)
    ELSE IF FoldedRows(n) # {} THEN FoldedRows(n)
    ELSE IF StrippedRows(n) # {} THEN StrippedRows(n)
    ELSE SubstringRows(n)

\* C25 as stated: the comparison requests the player list once (one club
\* request and one request per page, the other requests being the stats
\* requests of the names found), and every name it has tried was resolved
\* by the first of the rules exact match, case-folded match, space-stripped
\* case-folded match, substring that finds a player, to a player that rule
\* finds; a name no rule finds a player for fails with 'not found'.
C25_ResolutionOrder ==
    (call.name = "get_player_comparison" /\ pc \in {"names", "done"} /\ work.found # <<>>) =>
        /\ mkCalls = 1 + Len(work.seen)
                       + Cardinality({i \in 1..Len(work.found) : work.found[i].kind = "return"})
        /\ \A i \in 1..Len(work.found) :
              LET n == work.names[i]
                  f == work.found[i]
              IN IF RuleRows(n) = {}
                 THEN f.kind = "raise" /\ IsNotFound(f.msg)
                 ELSE /\ f.kind = "return"
                      /\ \E j \in RuleRows(n) :
                            /\ f.val.id = work.players[j]["ID"]
                            /\ f.val.name = work.players[j]["Name"]

(***************************************************************************)
(* Claims on get_club_stats, checked under SpecCompare.                    *)
(***************************************************************************)
\* the items of the "stats" array of the document the call received
StatItems == Get(mk.val, "stats", <<>>)
StatItemsWellFormed ==
    \A i \in 1..Len(StatItems) : {"name", "value"} \subseteq DOMAIN StatItems[i]
StatNamesOf == {StatItems[i].name : i \in 1..Len(StatItems)}
\* some item of the array gives the name this value
HasStat(n, v) == \E i \in 1..Len(StatItems) : StatItems[i].name = n /\ StatItems[i].value = v
\* the place of a stat name in ascending order of the names
Rank(n) == CHOOSE i \in 1..Len(StatNamesSorted) : StatNamesSorted[i] = n

\* C26: a get_club_stats call that received a document whose stats items are
\* well formed returns, given a stat name of the array, a value the array
\* gives that name, and fails with NotFound given any other stat name;
\* given no stat name it returns in tabular mode one Stat/Value row per name
\* of the array in ascending order of the names, and otherwise the mapping
\* of every name of the array to its value.
C26_ClubStats ==
    (Done("get_club_stats") /\ GotDoc /\ StatItemsWellFormed) =>
        IF Truthy(call.arg)
        THEN IF call.arg.text \in StatNamesOf
             THEN /\ out.kind = "return"
                  /\ DOMAIN out.val = {"value"}
                  /\ HasStat(call.arg.text, out.val.value)
             ELSE out.kind = "raise" /\ IsNotFound(out.msg)
        ELSE /\ out.kind = "return"
             /\ IF OutputOf(call.output, cfg) = "df"
                THEN /\ DOMAIN out.val = {"columns", "rows"}
                     /\ out.val.columns = {"Stat", "Value"}
                     /\ Len(out.val.rows) = Cardinality(StatNamesOf)
                     /\ {out.val.rows[i].Stat : i \in 1..Len(out.val.rows)} = StatNamesOf
                     /\ \A i \in 1..Len(out.val.rows) :
                           HasStat(out.val.rows[i].Stat, out.val.rows[i].Value)
                     /\ \A i, j \in 1..Len(out.val.rows) :
                           i < j => Rank(out.val.rows[i].Stat) < Rank(out.val.rows[j].Stat)
                ELSE /\ DOMAIN out.val = {"map"}
                     /\ DOMAIN out.val.map = StatNamesOf
                     /\ \A n \in StatNamesOf : HasStat(n, out.val.map[n])

\* a tabular call without stat name over the two stats of the fixture
C26_Witness ==
    /\ Done("get_club_stats")
    /\ mk.kind = "return" /\ mk.val = StatsFull
    /\ ~call.arg.given
    /\ OutputOf(call.output, cfg) = "df"
    /\ out.kind = "return"
    /\ Len(out.val.rows) = 2
    /\ out.val.rows[1].Stat = "appearances"

(***************************************************************************)
(* Claims on APIConfig, checked under SpecConfig.                          *)
(***************************************************************************)
\* the settings of the model and the defaults config.py gives them
Settings ==
    { <<"api", "timeout">>, <<"api", "max_retries">>, <<"api", "retry_delay">>,
      <<"pagination", "default_page_size">>, <<"pagination", "max_page_size">> }
DefaultOf(key) ==
    CASE key = "timeout" -> DefaultTimeout
      [] key = "max_retries" -> DefaultMaxRetries
      [] key = "retry_delay" -> DefaultRetryDelay
      [] key = "default_page_size" -> DefaultPageSize
      [] key = "max_page_size" -> DefaultMaxPageSize
\* the environment variable of a key
VarOf(key) ==
    CASE key = "timeout" -> "EPLAPI_TIMEOUT"
      [] key = "max_retries" -> "EPLAPI_MAX_RETRIES"
      [] key = "retry_delay" -> "EPLAPI_RETRY_DELAY"
      [] key = "default_page_size" -> "EPLAPI_DEFAULT_PAGE_SIZE"
      [] key = "max_page_size" -> "EPLAPI_MAX_PAGE_SIZE"
\* the environment names the setting with an integer
EnvNames(env, key) == VarOf(key) \in DOMAIN env /\ EnvInt(env[VarOf(key)]).ok
\* the config file was loaded and names the setting
FileNames(config_file, section, key) ==
    /\ config_file.given /\ config_file.exists /\ config_file.loads
    /\ section \in DOMAIN config_file.content
    /\ key \in DOMAIN config_file.content[section].map
\* the value the precedence defaults, file, environment gives a setting
ByPrecedence(c, section, key) ==
    IF EnvNames(c.env, key) THEN Num(EnvInt(c.env[VarOf(key)]).n)
    ELSE IF FileNames(c.config_file, section, key)
         THEN c.config_file.content[section].map[key]
    ELSE Num(DefaultOf(key))
Latest == configs[Len(configs)]

\* C27 as stated: every setting of the configuration constructed last has
\* the value of its environment variable when that is an integer, else the
\* value the config file gives it, else its default.
C27_Precedence ==
    configs # <<>> =>
        \A st \in Settings :
            ConfigGet(heap, Latest.top, st[1], st[2]) = ByPrecedence(Latest, st[1], st[2])

\* C28 as stated: whatever configurations were constructed, DEFAULT_CONFIG
\* holds the default of every setting, and so does a configuration
\* constructed last with no config file and no environment variable.
C28_DefaultsUnchanged ==
    /\ \A st \in Settings : ConfigGet(heap, ClassTop, st[1], st[2]) = Num(DefaultOf(st[2]))
    /\ (configs # <<>> /\ Latest.config_file = NoFile /\ Latest.env = NoEnv) =>
          \A st \in Settings :
              ConfigGet(heap, Latest.top, st[1], st[2]) = Num(DefaultOf(st[2]))

====
